---- MODULE Spec2Model ----
(***************************************************************************)
(* Model of the crawl orchestrator of leboncoin_bot:                       *)
(*   src/core/scraper.py        AdvancedScraper                            *)
(*   src/utils/captcha_handler.py  CaptchaHandler                          *)
(*   src/utils/delays.py        SmartDelayManager                          *)
(*   src/models/ad.py           Ad, ScrapingSession                        *)
(*   src/core/browser_manager.py   BrowserManager                          *)
(* The page driver (Selenium) is the environment: what a page does when it *)
(* is fetched is a nondeterministic choice among PageBehaviours.           *)
(***************************************************************************)
EXTENDS Integers, Sequences, FiniteSets, TLC

(***************************************************************************)
(* Configuration (config.yaml, read through self.config) and model bounds. *)
(***************************************************************************)
\* config['limits']['max_captcha_encounters']
max_captcha_encounters == 1
\* config['limits']['max_consecutive_errors']
max_consecutive_errors == 1
\* largest number of ad elements the driver finds on one page
MaxAds == 1
\* scrape_target: max_empty_pages = 3
max_empty_pages == 3
\* wait_after_captcha(60) in the rate-limit branch
RATE_LIMIT_BASE == 60
\* time.sleep(10) after a failed page
FAIL_SLEEP == 10
\* time.sleep(30) between targets
TARGET_PAUSE == 30
\* random.uniform(10, 30) in wait_after_captcha
JITTER_LOW == 10
JITTER_HIGH == 30
\* 1.2 ** min(self.consecutive_errors, 5): the backoff factor as a fraction
\* and the cap of its exponent
BACKOFF_NUM == 6
BACKOFF_DEN == 5
BACKOFF_CAP == 5
\* random.uniform(0.8, 1.2) in wait_between_requests, in fifths
PACING_JITTER_LOW == 4
PACING_JITTER_HIGH == 6
JITTER_DEN == 5
\* largest captcha_wait_timeout, in seconds
MaxTimeout == 4
\* largest consecutive_errors the delay manager is driven to
MaxErrors == 6
\* the clock is followed for this many seconds
MaxSeconds == 4
\* sample points of random.uniform(lo, hi): both ends and the middle
UniformSamples(lo, hi) == {lo, (lo + hi) \div 2, hi}

\* The configurations a run is started with: config['targets'] (each target
\* a dict with name, category, keywords) and config['scraping']['max_pages'].
\* DeepConfig paginates one keyword past max_empty_pages; WideConfig has
\* several keywords and several targets.
DeepConfig ==
  [targets |-> << [name |-> "t1", category |-> "c1", keywords |-> <<"k1">>] >>,
   max_pages |-> max_empty_pages + 1]

WideConfig ==
  [targets |-> << [name |-> "t1", category |-> "c1", keywords |-> <<"k1", "k2">>],
                  [name |-> "t2", category |-> "c2", keywords |-> <<"k1">>] >>,
   max_pages |-> 1]

\* TwinConfig lists the same target twice.  In BrokenConfig and
\* NamelessConfig the first entry of the YAML list lacks a key that
\* scrape_target reads ('category', 'name').
TwinConfig ==
  [targets |-> << [name |-> "t1", category |-> "c1", keywords |-> <<"k1">>],
                  [name |-> "t1", category |-> "c1", keywords |-> <<"k1">>] >>,
   max_pages |-> 1]

BrokenConfig ==
  [targets |-> << [name |-> "t1", keywords |-> <<"k1">>],
                  [name |-> "t2", category |-> "c2", keywords |-> <<"k1">>] >>,
   max_pages |-> 1]

NamelessConfig ==
  [targets |-> << [category |-> "c1", keywords |-> <<"k1">>],
                  [name |-> "t2", category |-> "c2", keywords |-> <<"k1">>] >>,
   max_pages |-> 1]

Configs == {DeepConfig, WideConfig, TwinConfig, BrokenConfig, NamelessConfig}

VARIABLES
  config,                  \* self.config, loaded by __init__
  pc,                      \* control point of scrape_all_targets
  driver,                  \* BrowserManager.driver: "None" or "chrome"
  ti,                      \* index of the target being scraped
  ki,                      \* index of the keyword being scraped
  page,                    \* next value of the page loop variable
  consecutive_empty_pages, \* scrape_target local
  keyword_ads,             \* scrape_target local
  target_ads,              \* scrape_target's all_ads
  all_ads,                 \* scrape_all_targets' all_ads
  successful_pages,        \* session.successful_pages
  failed_pages,            \* session.failed_pages
  total_ads_found,         \* session.total_ads_found
  errors,                  \* session.errors
  captcha_count,           \* captcha_handler.captcha_count
  consecutive_errors,      \* delay_manager.consecutive_errors
  last,                    \* log of the last loop iteration
  min_delay,               \* delay_manager.min_delay, in ticks
  max_delay,               \* delay_manager.max_delay, in ticks
  last_request_time,       \* delay_manager.last_request_time: << >> is None
  now,                     \* the clock read by time.time(), in ticks
  wait_pc,                 \* handle_captcha_manually: "idle", "polling",
                           \* "returned" or "raised"
  end_time,                \* deadline of the WebDriverWait being polled
  marker,                  \* what the last poll of detect_captcha saw
  wait_result,             \* value returned by handle_captcha_manually
  app,                     \* ScrapingApp.run: its position, fields and effects
  dom,                     \* what the driver finds for the call under study
  returned                 \* value returned by the call under study: << >>
                           \* before it returns

\* the pacing state of the delay manager and the clock
pacing_vars == << min_delay, max_delay, last_request_time, now >>

\* the manual CAPTCHA wait in progress
wait_vars == << wait_pc, end_time, marker, wait_result >>

\* the application around the scraper and the element lookups studied alone
outer_vars == << app, dom, returned >>

vars == << config, pc, driver, ti, ki, page, consecutive_empty_pages, keyword_ads,
           target_ads, all_ads, successful_pages, failed_pages,
           total_ads_found, errors, captcha_count, consecutive_errors, last,
           pacing_vars, wait_vars, outer_vars >>

(***************************************************************************)
(* The page driver's behaviour on one fetch.                               *)
(***************************************************************************)
RaisePoints ==
  {"none", "get", "detect_captcha", "handle_captcha", "page_load", "find_elements"}

ExceptionKinds == {"WebDriverException", "Exception"}

\* what one ad element does in _extract_ad_data: an Ad, or None on a fault
ElementKinds == {"ok", "fault"}

ElementLists == UNION {[1..n -> ElementKinds] : n \in 0..MaxAds}

NoElements == << >>

PageBehaviours ==
  { b \in [raise_at : RaisePoints, exc : ExceptionKinds, captcha : BOOLEAN,
           resolved : BOOLEAN, rate_limited : BOOLEAN, loaded : BOOLEAN,
           elements : ElementLists,
           jitter : UniformSamples(JITTER_LOW, JITTER_HIGH)] :
      /\ (b.raise_at = "none") => (b.exc = "WebDriverException")
      /\ (b.raise_at \in {"get", "detect_captcha"}) =>
            (~b.captcha /\ ~b.rate_limited /\ ~b.loaded /\ b.elements = NoElements)
      /\ (b.raise_at = "handle_captcha") =>
            (b.captcha /\ ~b.resolved /\ ~b.rate_limited /\ ~b.loaded
               /\ b.elements = NoElements)
      /\ (b.raise_at = "page_load") =>
            (~b.rate_limited /\ ~b.loaded /\ b.elements = NoElements)
      /\ (b.raise_at = "find_elements") =>
            (~b.rate_limited /\ b.loaded /\ b.elements = NoElements)
      /\ (~b.captcha) => (~b.resolved)
      /\ (b.captcha /\ ~b.resolved) =>
            (~b.rate_limited /\ ~b.loaded /\ b.elements = NoElements)
      /\ b.rate_limited => (~b.loaded /\ b.elements = NoElements)
      /\ (~b.loaded) => (b.elements = NoElements)
      /\ (~b.rate_limited) => (b.jitter = JITTER_LOW) }

(***************************************************************************)
(* The mutable objects _scrape_page works on, as one record m:             *)
(*   session.successful_pages, session.failed_pages, session.errors,       *)
(*   captcha_handler.captcha_count, delay_manager.consecutive_errors,      *)
(* and calls, the log of the collaborator calls made in this iteration.    *)
(***************************************************************************)
Call(op, arg, dur) == [op |-> op, arg |-> arg, dur |-> dur]

Log(m, op, arg, dur) == [m EXCEPT !.calls = Append(@, Call(op, arg, dur))]

Max(a, b) == IF a >= b THEN a ELSE b

(***************************************************************************)
(* SmartDelayManager (utils/delays.py).  The pacing sleep of               *)
(* wait_between_requests is logged as a call; its duration is not part of  *)
(* the orchestrator's state.                                               *)
(***************************************************************************)
\* mutant: the pacing wait after a navigation is left out
wait_between_requests_skipped(m) == m

wait_between_requests(m) == Log(m, "wait_between_requests", 0, 0)

\* mutant: record_success without the floor at 0
record_success_unfloored(m) ==
  Log([m EXCEPT !.consecutive_errors = @ - 1], "record_success", 0, 0)

record_success(m) ==
  Log([m EXCEPT !.consecutive_errors = Max(0, @ - 1)], "record_success", 0, 0)

record_error(m) ==
  Log([m EXCEPT !.consecutive_errors = @ + 1], "record_error", 0, 0)

\* delay = base_time + random.uniform(10, 30); time.sleep(delay)
wait_after_captcha(m, base_time, jitter) ==
  Log(m, "wait_after_captcha", base_time, base_time + jitter)

(***************************************************************************)
(* The arithmetic of wait_between_requests.  Times are whole ticks, with   *)
(* BACKOFF_DEN ^ BACKOFF_CAP * JITTER_DEN ticks to the second, so that for *)
(* delays of whole seconds min_delay * 1.2 ** k * jitter is computed       *)
(* exactly for k up to 6 and jitter in fifths.                             *)
(***************************************************************************)
TicksPerSecond == (BACKOFF_DEN ^ BACKOFF_CAP) * JITTER_DEN

Seconds(n) == n * TicksPerSecond

Min(a, b) == IF a <= b THEN a ELSE b

\* self.min_delay * (1.2 ** k)
Backoff(mn, k) == (mn * (BACKOFF_NUM ^ k)) \div (BACKOFF_DEN ^ k)

\* mutant: the exponent of the backoff is not capped
base_delay_uncapped(mn, mx, errs) == Min(Backoff(mn, errs), mx)

\* lines 21-22
base_delay(mn, mx, errs) == Min(Backoff(mn, Min(errs, BACKOFF_CAP)), mx)

\* mutant: the jitter is added, as seconds, instead of scaling the delay
delay_additive(base, jitter) == base + (Seconds(jitter) \div JITTER_DEN)

\* line 26: delay = base_delay * jitter, jitter in fifths
delay(base, jitter) == (base * jitter) \div JITTER_DEN

\* last_request_time is None (<< >>) or << t >>; line 29 tests its truth
\* value, and 0.0 is false
Truthy(lrt) == lrt # << >> /\ lrt # << 0 >>

\* mutant: a fixed pause, the time already elapsed is not counted
sleeps_fixed(d, lrt, current_time) == << d >>

\* lines 29-35: the durations handed to time.sleep, in order: the remaining
\* delay when it is positive, nothing when it is 0, the whole delay when
\* there is no previous request time
sleeps(d, lrt, current_time) ==
  IF Truthy(lrt)
    THEN LET elapsed == current_time - lrt[1]
             remaining_delay == Max(0, d - elapsed)
         IN  IF remaining_delay > 0 THEN << remaining_delay >> ELSE << >>
    ELSE << d >>

(***************************************************************************)
(* CaptchaHandler (utils/captcha_handler.py).                              *)
(***************************************************************************)
\* mutant: the ceiling check off by one
should_continue_scraping_lenient(count) == count <= max_captcha_encounters + 1

should_continue_scraping(count) == count <= max_captcha_encounters

detect_captcha(b) == b.captcha

\* mutant: a resolved CAPTCHA is taken off the count again
handle_captcha_manually_refund(m, b) ==
  LET m1 == Log([m EXCEPT !.captcha_count = @ + 1], "handle_captcha_manually", 0, 0)
  IN  IF m1.captcha_count > max_captcha_encounters
        THEN [m |-> m1, result |-> "False"]
        ELSE LET m2 == Log(m1, "WebDriverWait", 0, 0)
             IN  IF b.raise_at = "handle_captcha" THEN [m |-> m2, result |-> "raise"]
                 ELSE IF b.resolved
                   THEN [m |-> [m2 EXCEPT !.captcha_count = @ - 1], result |-> "True"]
                 ELSE [m |-> m2, result |-> "False"]

\* mutant: a wait that fails gives the count back
handle_captcha_manually_rollback(m, b) ==
  LET m1 == Log([m EXCEPT !.captcha_count = @ + 1], "handle_captcha_manually", 0, 0)
  IN  IF m1.captcha_count > max_captcha_encounters
        THEN [m |-> m1, result |-> "False"]
        ELSE LET m2 == Log(m1, "WebDriverWait", 0, 0)
             IN  IF b.raise_at = "handle_captcha" THEN [m |-> m2, result |-> "raise"]
                 ELSE IF b.resolved THEN [m |-> m2, result |-> "True"]
                 ELSE [m |-> [m2 EXCEPT !.captcha_count = @ - 1], result |-> "False"]

\* mutant: the ceiling is looked at only after the poll
handle_captcha_manually_polls_first(m, b) ==
  LET m1 == Log([m EXCEPT !.captcha_count = @ + 1], "handle_captcha_manually", 0, 0)
      m2 == Log(m1, "WebDriverWait", 0, 0)
  IN  IF b.raise_at = "handle_captcha" THEN [m |-> m2, result |-> "raise"]
      ELSE IF m1.captcha_count > max_captcha_encounters
        THEN [m |-> m2, result |-> "False"]
      ELSE IF b.resolved THEN [m |-> m2, result |-> "True"]
      ELSE [m |-> m2, result |-> "False"]

\* mutant: an encounter is counted twice
handle_captcha_manually_counts_twice(m, b) ==
  LET m1 == Log([m EXCEPT !.captcha_count = @ + 2], "handle_captcha_manually", 0, 0)
  IN  IF m1.captcha_count > max_captcha_encounters
        THEN [m |-> m1, result |-> "False"]
        ELSE LET m2 == Log(m1, "WebDriverWait", 0, 0)
             IN  IF b.raise_at = "handle_captcha" THEN [m |-> m2, result |-> "raise"]
                 ELSE IF b.resolved THEN [m |-> m2, result |-> "True"]
                 ELSE [m |-> m2, result |-> "False"]

\* result is "True", "False" or "raise" (an exception of kind b.exc leaves
\* the WebDriverWait poll)
handle_captcha_manually(m, b) ==
  LET m1 == Log([m EXCEPT !.captcha_count = @ + 1], "handle_captcha_manually", 0, 0)
  IN  IF m1.captcha_count > max_captcha_encounters
        THEN [m |-> m1, result |-> "False"]
        ELSE LET m2 == Log(m1, "WebDriverWait", 0, 0)
             IN  IF b.raise_at = "handle_captcha" THEN [m |-> m2, result |-> "raise"]
                 ELSE IF b.resolved THEN [m |-> m2, result |-> "True"]
                 ELSE [m |-> m2, result |-> "False"]

(***************************************************************************)
(* AdvancedScraper._scrape_page (core/scraper.py).  The result is          *)
(* [m, ads, success, outcome]: (ads, success) is the tuple the method      *)
(* returns, outcome names the return statement that was taken.             *)
(***************************************************************************)
Ret(m, ads, success, outcome) ==
  [m |-> m, ads |-> ads, success |-> success, outcome |-> outcome]

ErrorEntry(page_num, exc) == [page |-> page_num, exc |-> exc]

\* except WebDriverException as e: (lines 194-199)
WebDriverExceptionHandler(m, page_num) ==
  Ret(record_error([m EXCEPT !.errors = Append(@, ErrorEntry(page_num, "WebDriverException")),
                             !.failed_pages = @ + 1]),
      << >>, FALSE, "webdriver_exception")

\* mutant: the general handler records the error without counting the page
ExceptionHandler_uncounted(m, page_num) ==
  Ret([m EXCEPT !.errors = Append(@, ErrorEntry(page_num, "Exception"))],
      << >>, FALSE, "exception")

\* except Exception as e: (lines 201-205)
ExceptionHandler(m, page_num) ==
  Ret([m EXCEPT !.errors = Append(@, ErrorEntry(page_num, "Exception")),
                !.failed_pages = @ + 1],
      << >>, FALSE, "exception")

Raise(m, page_num, exc) ==
  IF exc = "WebDriverException"
    THEN WebDriverExceptionHandler(m, page_num)
    ELSE ExceptionHandler(m, page_num)

\* mutant: the long cooldown is also taken after an unresolved CAPTCHA
CaptchaUnresolvedReturn_cooldown(m) ==
  Ret(wait_after_captcha(m, RATE_LIMIT_BASE, JITTER_LOW), << >>, FALSE,
      "captcha_unresolved")

\* if not handle_captcha_manually(...): return ads, False (lines 155-159)
CaptchaUnresolvedReturn(m) == Ret(m, << >>, FALSE, "captcha_unresolved")

\* rate limiting detected (lines 162-165)
RateLimitReturn(m, b) ==
  Ret(wait_after_captcha(m, RATE_LIMIT_BASE, b.jitter), << >>, FALSE, "rate_limited")

\* mutant: a load timeout is not counted as a failed page
LoadTimeoutReturn_uncounted(m) == Ret(m, << >>, FALSE, "load_timeout")

\* _wait_for_page_load returned False (lines 168-171)
LoadTimeoutReturn(m) ==
  Ret([m EXCEPT !.failed_pages = @ + 1], << >>, FALSE, "load_timeout")

\* if not ad_elements: return ads, True (lines 176-178)
EmptyPageReturn(m) == Ret(m, << >>, TRUE, "empty_page")

\* mutant: the record keeps the dataclass default page_number
Ad_unstamped(category, keyword, page_num) ==
  [category |-> category, keyword |-> keyword, page_number |-> 0]

Ad(category, keyword, page_num) ==
  [category |-> category, keyword |-> keyword, page_number |-> page_num]

\* the for loop over ad_elements (lines 180-186): _extract_ad_data gives an
\* Ad for an element, or None when extracting it faults
ExtractAds(elements, category, keyword, page_num) ==
  LET OkAt == {i \in 1..Len(elements) : elements[i] = "ok"}
  IN  [i \in 1..Cardinality(OkAt) |-> Ad(category, keyword, page_num)]

\* mutant: an extracted page is counted as successful and as failed
ExtractedReturn_counts_both(m, ads) ==
  Ret(record_success([m EXCEPT !.successful_pages = @ + 1, !.failed_pages = @ + 1]),
      ads, TRUE, "extracted")

\* lines 188-192
ExtractedReturn(m, ads) ==
  Ret(record_success([m EXCEPT !.successful_pages = @ + 1]), ads, TRUE, "extracted")

\* lines 161-192: from the rate-limit check on
AfterCaptchaCheck(m, category, keyword, page_num, b) ==
  LET m1 == Log(m, "detect_rate_limiting", 0, 0)
  IN  IF b.rate_limited THEN RateLimitReturn(m1, b)
      ELSE LET m2 == Log(m1, "wait_for_page_load", 0, 0)
           IN  IF b.raise_at = "page_load" THEN Raise(m2, page_num, b.exc)
               ELSE IF ~b.loaded THEN LoadTimeoutReturn(m2)
               ELSE LET m3 == Log(m2, "find_elements", 0, 0)
                    IN  IF b.raise_at = "find_elements" THEN Raise(m3, page_num, b.exc)
                        ELSE IF b.elements = NoElements THEN EmptyPageReturn(m3)
                        ELSE ExtractedReturn(m3,
                               ExtractAds(b.elements, category, keyword, page_num))

\* lines 142-205
scrape_page(m, category, keyword, page_num, b) ==
  LET m1 == Log(m, "get", page_num, 0)
  IN  IF b.raise_at = "get" THEN Raise(m1, page_num, b.exc)
      ELSE LET m2 == wait_between_requests(m1)
               m3 == Log(m2, "detect_captcha", 0, 0)
           IN  IF b.raise_at = "detect_captcha" THEN Raise(m3, page_num, b.exc)
               ELSE IF detect_captcha(b)
                 THEN LET h == handle_captcha_manually(m3, b)
                      IN  IF h.result = "raise" THEN Raise(h.m, page_num, b.exc)
                          ELSE IF h.result = "False" THEN CaptchaUnresolvedReturn(h.m)
                          ELSE AfterCaptchaCheck(h.m, category, keyword, page_num, b)
                 ELSE AfterCaptchaCheck(m3, category, keyword, page_num, b)

(***************************************************************************)
(* AdvancedScraper.scrape_all_targets / scrape_target as a state machine.  *)
(*   pc = "new"           AdvancedScraper(config_path) is being constructed *)
(*   pc = "config_error"  the constructor has raised ConfigurationError    *)
(*   pc = "start"         before the with-statement starts the browser     *)
(*   pc = "target_start"  scrape_target(target) is about to be called      *)
(*   pc = "page_loop"     at the top of the page loop body                 *)
(*   pc = "keyword_end"   the page loop of a keyword has been left         *)
(*   pc = "target_end"    the keyword loop of a target has been left       *)
(*   pc = "done"          scrape_all_targets has returned all_ads          *)
(*   pc = "raised"        scrape_all_targets has raised ScrapingError      *)
(***************************************************************************)
NoLast ==
  [action |-> "none", target |-> 0, keyword |-> 0, page |-> 0,
   outcome |-> "none", success |-> FALSE, n_ads |-> 0, calls |-> << >>]

StepLog(action) == [NoLast EXCEPT !.action = action, !.target = ti, !.keyword = ki]

Targets == config.targets

max_pages == config.max_pages

\* SmartDelayManager.__init__ with the default delays of 1 and 5 seconds;
\* the clock stands at its first tick
PacingInit ==
  /\ min_delay = Seconds(1)
  /\ max_delay = Seconds(5)
  /\ last_request_time = << >>
  /\ now = 1

\* ScrapingSession(), CaptchaHandler and the locals before the run starts
SessionInit ==
  /\ driver = "None"
  /\ ti = 0
  /\ ki = 0
  /\ page = 0
  /\ consecutive_empty_pages = 0
  /\ keyword_ads = << >>
  /\ target_ads = << >>
  /\ all_ads = << >>
  /\ successful_pages = 0
  /\ failed_pages = 0
  /\ total_ads_found = 0
  /\ errors = << >>
  /\ captcha_count = 0
  /\ consecutive_errors = 0
  /\ last = NoLast

\* the application and the lookups studied alone are not in play
OuterIdle ==
  /\ app = "none"
  /\ dom = "none"
  /\ returned = << >>

\* no manual CAPTCHA wait is in progress
WaitIdle ==
  /\ wait_pc = "idle"
  /\ end_time = 0
  /\ marker = "none"
  /\ wait_result = "none"

Init ==
  /\ config \in Configs
  /\ pc = "new"
  /\ PacingInit
  /\ WaitIdle
  /\ OuterIdle
  /\ SessionInit

\* the session, the counters and the locals stay as they are
session_frame ==
  << driver, ti, ki, page, consecutive_empty_pages, keyword_ads, target_ads,
     all_ads, successful_pages, failed_pages, total_ads_found, errors,
     captcha_count, consecutive_errors >>

\* AdvancedScraper.__init__: _load_config reads and parses the file
LoadConfig ==
  /\ pc = "new"
  /\ pc' = "start"
  /\ last' = StepLog("LoadConfig")
  /\ UNCHANGED << pacing_vars, wait_vars, outer_vars, config, session_frame >>

\* open() or yaml.safe_load raises: _load_config raises ConfigurationError
\* out of the constructor, so scrape_all_targets is never reached
LoadConfigFail ==
  /\ pc = "new"
  /\ pc' = "config_error"
  /\ last' = StepLog("LoadConfigFail")
  /\ UNCHANGED << pacing_vars, wait_vars, outer_vars, config, session_frame >>

\* range(1, max_pages + 1) yields nothing when max_pages < 1
PageLoopEntry == IF max_pages >= 1 THEN "page_loop" ELSE "keyword_end"

\* with self.browser_manager as driver: BrowserManager.start() succeeds
BrowserStart ==
  /\ pc = "start"
  /\ driver' = "chrome"
  /\ IF Len(Targets) >= 1
       THEN /\ ti' = 1
            /\ pc' = "target_start"
       ELSE /\ ti' = ti
            /\ pc' = "done"
  /\ last' = StepLog("BrowserStart")
  /\ UNCHANGED << pacing_vars, wait_vars, outer_vars, config, ki, page, consecutive_empty_pages, keyword_ads, target_ads,
                  all_ads, successful_pages, failed_pages, total_ads_found,
                  errors, captcha_count, consecutive_errors >>

\* BrowserManager.start() raises: the outer except turns it into ScrapingError.
\* __exit__ does not run when __enter__ raises, so a browser created before
\* the failing step (lines 85-91) stays in self.driver.
BrowserStartFail ==
  /\ pc = "start"
  /\ pc' = "raised"
  /\ \E created \in BOOLEAN : driver' = IF created THEN "chrome" ELSE "None"
  /\ last' = StepLog("BrowserStartFail")
  /\ UNCHANGED << pacing_vars, wait_vars, outer_vars, config, ti, ki, page, consecutive_empty_pages, keyword_ads,
                  target_ads, all_ads, successful_pages, failed_pages,
                  total_ads_found, errors, captcha_count, consecutive_errors >>

\* the keys scrape_target reads from a target (lines 210-212)
TargetKeys == {"category", "name", "keywords"}

\* target['category'], target['name'] and target['keywords'] all exist
WellFormed(target) == TargetKeys \subseteq DOMAIN target

\* the except clause of the target loop (lines 278-280): it logs
\* target['name'] and continues; without that key the handler raises itself
HandlerRaises(target) == "name" \notin DOMAIN target

\* scrape_target raises KeyError at lines 210-212.  The handler of the
\* target loop logs and continues with the next target (no extend, no
\* pause); when the handler raises, the exception leaves the with-statement
\* (the browser is closed) and the outer handler raises ScrapingError.
TargetRaises ==
  /\ pc = "target_start"
  /\ ~WellFormed(Targets[ti])
  /\ IF HandlerRaises(Targets[ti])
       THEN /\ pc' = "raised"
            /\ ti' = ti
            /\ driver' = "None"
            /\ last' = [StepLog("TargetRaises") EXCEPT !.outcome = "handler_raised"]
       ELSE /\ last' = [StepLog("TargetRaises") EXCEPT !.outcome = "target_skipped"]
            /\ IF ti < Len(Targets)
                 THEN /\ ti' = ti + 1
                      /\ pc' = "target_start"
                      /\ driver' = driver
                 ELSE /\ ti' = ti
                      /\ pc' = "done"
                      /\ driver' = "None"
  /\ UNCHANGED << pacing_vars, wait_vars, outer_vars, config, ki, page, consecutive_empty_pages,
                  keyword_ads, target_ads, all_ads, successful_pages, failed_pages,
                  total_ads_found, errors, captcha_count, consecutive_errors >>

\* scrape_target lines 209-221: locals, then the first keyword's locals
StartTarget ==
  /\ pc = "target_start"
  /\ WellFormed(Targets[ti])
  /\ target_ads' = << >>
  /\ IF Len(Targets[ti].keywords) >= 1
       THEN /\ ki' = 1
            /\ keyword_ads' = << >>
            /\ consecutive_empty_pages' = 0
            /\ page' = 1
            /\ pc' = PageLoopEntry
       ELSE /\ pc' = "target_end"
            /\ UNCHANGED << ki, keyword_ads, consecutive_empty_pages, page >>
  /\ last' = StepLog("StartTarget")
  /\ UNCHANGED << pacing_vars, wait_vars, outer_vars, config, driver, ti, all_ads, successful_pages, failed_pages,
                  total_ads_found, errors, captcha_count, consecutive_errors >>

\* mutant: the error budget compared with >= instead of >
ErrorBudgetExceeded_strict(errs) == Len(errs) >= max_consecutive_errors

\* line 225: if len(self.session.errors) > max_consecutive_errors: break
ErrorBudgetExceeded(errs) == Len(errs) > max_consecutive_errors

\* mutant: a breached budget leaves the keyword loop as well
BudgetBreak_leaves_target ==
  /\ pc = "page_loop"
  /\ ErrorBudgetExceeded(errors) \/ ~should_continue_scraping(captcha_count)
  /\ pc' = "target_end"
  /\ last' = [StepLog("BudgetBreak") EXCEPT !.page = page, !.outcome = "budget_break"]
  /\ UNCHANGED << pacing_vars, wait_vars, outer_vars, config, driver, ti, ki, page, consecutive_empty_pages, keyword_ads,
                  target_ads, all_ads, successful_pages, failed_pages,
                  total_ads_found, errors, captcha_count, consecutive_errors >>

\* mutant: a breached budget is raised out of the run
BudgetBreak_raises ==
  /\ pc = "page_loop"
  /\ ErrorBudgetExceeded(errors) \/ ~should_continue_scraping(captcha_count)
  /\ pc' = "raised"
  /\ last' = [StepLog("BudgetBreak") EXCEPT !.page = page, !.outcome = "budget_break"]
  /\ UNCHANGED << pacing_vars, wait_vars, outer_vars, config, driver, ti, ki, page, consecutive_empty_pages, keyword_ads,
                  target_ads, all_ads, successful_pages, failed_pages,
                  total_ads_found, errors, captcha_count, consecutive_errors >>

\* mutant: leaving the page loop on a breach clears the error list
BudgetBreak_forgives ==
  /\ pc = "page_loop"
  /\ ErrorBudgetExceeded(errors) \/ ~should_continue_scraping(captcha_count)
  /\ pc' = "keyword_end"
  /\ errors' = << >>
  /\ last' = [StepLog("BudgetBreak") EXCEPT !.page = page, !.outcome = "budget_break"]
  /\ UNCHANGED << pacing_vars, wait_vars, outer_vars, config, driver, ti, ki, page, consecutive_empty_pages, keyword_ads,
                  target_ads, all_ads, successful_pages, failed_pages,
                  total_ads_found, captcha_count, consecutive_errors >>

\* lines 223-232: one of the two checks at the top of the loop body breaks
BudgetBreak ==
  /\ pc = "page_loop"
  /\ ErrorBudgetExceeded(errors) \/ ~should_continue_scraping(captcha_count)
  /\ pc' = "keyword_end"
  /\ last' = [StepLog("BudgetBreak") EXCEPT !.page = page, !.outcome = "budget_break"]
  /\ UNCHANGED << pacing_vars, wait_vars, outer_vars, config, driver, ti, ki, page, consecutive_empty_pages, keyword_ads,
                  target_ads, all_ads, successful_pages, failed_pages,
                  total_ads_found, errors, captcha_count, consecutive_errors >>

\* mutant: a page with records does not reset the empty-page counter
AfterPage_noreset(r, kw_ads, empty) ==
  IF r.success
    THEN IF r.ads # << >>
           THEN [ads |-> kw_ads \o r.ads, empty |-> empty, brk |-> FALSE,
                 calls |-> r.m.calls]
           ELSE [ads |-> kw_ads, empty |-> empty + 1,
                 brk |-> (empty + 1 >= max_empty_pages), calls |-> r.m.calls]
    ELSE [ads |-> kw_ads, empty |-> empty, brk |-> FALSE,
          calls |-> Append(r.m.calls, Call("sleep", FAIL_SLEEP, FAIL_SLEEP))]

\* mutant: a failed page starts the count of empty pages afresh
AfterPage_failure_resets(r, kw_ads, empty) ==
  IF r.success
    THEN IF r.ads # << >>
           THEN [ads |-> kw_ads \o r.ads, empty |-> 0, brk |-> FALSE,
                 calls |-> r.m.calls]
           ELSE [ads |-> kw_ads, empty |-> empty + 1,
                 brk |-> (empty + 1 >= max_empty_pages), calls |-> r.m.calls]
    ELSE [ads |-> kw_ads, empty |-> 0, brk |-> FALSE,
          calls |-> Append(r.m.calls, Call("sleep", FAIL_SLEEP, FAIL_SLEEP))]

\* lines 237-248: what the loop body does with (page_ads, success);
\* the result is [ads, empty, brk, calls]
AfterPage(r, kw_ads, empty) ==
  IF r.success
    THEN IF r.ads # << >>
           THEN [ads |-> kw_ads \o r.ads, empty |-> 0, brk |-> FALSE,
                 calls |-> r.m.calls]
           ELSE [ads |-> kw_ads, empty |-> empty + 1,
                 brk |-> (empty + 1 >= max_empty_pages), calls |-> r.m.calls]
    ELSE [ads |-> kw_ads, empty |-> empty, brk |-> FALSE,
          calls |-> Append(r.m.calls, Call("sleep", FAIL_SLEEP, FAIL_SLEEP))]

\* the session, the CAPTCHA handler and the delay manager as _scrape_page
\* finds them
CurrentM ==
  [successful_pages |-> successful_pages,
   failed_pages |-> failed_pages,
   errors |-> errors,
   captcha_count |-> captcha_count,
   consecutive_errors |-> consecutive_errors,
   calls |-> << >>]

\* mutant: a page that failed is fetched again
ScrapePage_retries ==
  /\ pc = "page_loop"
  /\ ~ErrorBudgetExceeded(errors)
  /\ should_continue_scraping(captcha_count)
  /\ \E b \in PageBehaviours :
       LET r == scrape_page(CurrentM, Targets[ti].category,
                            Targets[ti].keywords[ki], page, b)
           a == AfterPage(r, keyword_ads, consecutive_empty_pages)
       IN  /\ successful_pages' = r.m.successful_pages
           /\ failed_pages' = r.m.failed_pages
           /\ errors' = r.m.errors
           /\ captcha_count' = r.m.captcha_count
           /\ consecutive_errors' = r.m.consecutive_errors
           /\ keyword_ads' = a.ads
           /\ consecutive_empty_pages' = a.empty
           /\ page' = IF r.success THEN page + 1 ELSE page
           /\ pc' = IF a.brk \/ (r.success /\ page >= max_pages)
                      THEN "keyword_end" ELSE "page_loop"
           /\ last' = [StepLog("ScrapePage") EXCEPT
                         !.page = page, !.outcome = r.outcome,
                         !.success = r.success, !.n_ads = Len(r.ads),
                         !.calls = a.calls]
  /\ UNCHANGED << pacing_vars, wait_vars, outer_vars, config, driver, ti, ki, target_ads, all_ads, total_ads_found >>

\* lines 223-248: one iteration of the page loop that fetches a page
ScrapePage ==
  /\ pc = "page_loop"
  /\ ~ErrorBudgetExceeded(errors)
  /\ should_continue_scraping(captcha_count)
  /\ \E b \in PageBehaviours :
       LET r == scrape_page(CurrentM, Targets[ti].category,
                            Targets[ti].keywords[ki], page, b)
           a == AfterPage(r, keyword_ads, consecutive_empty_pages)
       IN  /\ successful_pages' = r.m.successful_pages
           /\ failed_pages' = r.m.failed_pages
           /\ errors' = r.m.errors
           /\ captcha_count' = r.m.captcha_count
           /\ consecutive_errors' = r.m.consecutive_errors
           /\ keyword_ads' = a.ads
           /\ consecutive_empty_pages' = a.empty
           /\ page' = page + 1
           /\ pc' = IF a.brk \/ page >= max_pages THEN "keyword_end" ELSE "page_loop"
           /\ last' = [StepLog("ScrapePage") EXCEPT
                         !.page = page, !.outcome = r.outcome,
                         !.success = r.success, !.n_ads = Len(r.ads),
                         !.calls = a.calls]
  /\ UNCHANGED << pacing_vars, wait_vars, outer_vars, config, driver, ti, ki, target_ads, all_ads, total_ads_found >>

\* mutant: a keyword's records are put in front of the target's records
EndKeyword_prepends ==
  /\ pc = "keyword_end"
  /\ target_ads' = keyword_ads \o target_ads
  /\ IF ki < Len(Targets[ti].keywords)
       THEN /\ ki' = ki + 1
            /\ keyword_ads' = << >>
            /\ consecutive_empty_pages' = 0
            /\ page' = 1
            /\ pc' = PageLoopEntry
       ELSE /\ pc' = "target_end"
            /\ UNCHANGED << ki, keyword_ads, consecutive_empty_pages, page >>
  /\ last' = StepLog("EndKeyword")
  /\ UNCHANGED << pacing_vars, wait_vars, outer_vars, config, driver, ti, all_ads, successful_pages, failed_pages,
                  total_ads_found, errors, captcha_count, consecutive_errors >>

\* lines 250-251, then the next keyword's locals (lines 219-221)
EndKeyword ==
  /\ pc = "keyword_end"
  /\ target_ads' = target_ads \o keyword_ads
  /\ IF ki < Len(Targets[ti].keywords)
       THEN /\ ki' = ki + 1
            /\ keyword_ads' = << >>
            /\ consecutive_empty_pages' = 0
            /\ page' = 1
            /\ pc' = PageLoopEntry
       ELSE /\ pc' = "target_end"
            /\ UNCHANGED << ki, keyword_ads, consecutive_empty_pages, page >>
  /\ last' = StepLog("EndKeyword")
  /\ UNCHANGED << pacing_vars, wait_vars, outer_vars, config, driver, ti, all_ads, successful_pages, failed_pages,
                  total_ads_found, errors, captcha_count, consecutive_errors >>

\* line 274: if target != self.config['targets'][-1]
PauseAfter(t) == Targets[t] # Targets[Len(Targets)]

\* mutant: a completed target adds the run's whole result to the count
EndTarget_counts_run ==
  /\ pc = "target_end"
  /\ total_ads_found' = total_ads_found + Len(all_ads \o target_ads)
  /\ all_ads' = all_ads \o target_ads
  /\ last' = [StepLog("EndTarget") EXCEPT
                !.calls = IF PauseAfter(ti)
                            THEN << Call("sleep", TARGET_PAUSE, TARGET_PAUSE) >>
                            ELSE << >>]
  /\ IF ti < Len(Targets)
       THEN /\ ti' = ti + 1
            /\ pc' = "target_start"
            /\ driver' = driver
       ELSE /\ ti' = ti
            /\ pc' = "done"
            /\ driver' = "None"
  /\ UNCHANGED << pacing_vars, wait_vars, outer_vars, config, ki, page, consecutive_empty_pages, keyword_ads, target_ads,
                  successful_pages, failed_pages, errors, captcha_count,
                  consecutive_errors >>

\* scrape_target lines 253-256, scrape_all_targets lines 271-276, and after
\* the last target the with-statement's __exit__ (close) and the return
EndTarget ==
  /\ pc = "target_end"
  /\ total_ads_found' = total_ads_found + Len(target_ads)
  /\ all_ads' = all_ads \o target_ads
  /\ last' = [StepLog("EndTarget") EXCEPT
                !.calls = IF PauseAfter(ti)
                            THEN << Call("sleep", TARGET_PAUSE, TARGET_PAUSE) >>
                            ELSE << >>]
  /\ IF ti < Len(Targets)
       THEN /\ ti' = ti + 1
            /\ pc' = "target_start"
            /\ driver' = driver
       ELSE /\ ti' = ti
            /\ pc' = "done"
            /\ driver' = "None"
  /\ UNCHANGED << pacing_vars, wait_vars, outer_vars, config, ki, page, consecutive_empty_pages, keyword_ads, target_ads,
                  successful_pages, failed_pages, errors, captcha_count,
                  consecutive_errors >>

Next ==
  \/ LoadConfig
  \/ LoadConfigFail
  \/ BrowserStart
  \/ BrowserStartFail
  \/ StartTarget
  \/ TargetRaises
  \/ BudgetBreak
  \/ ScrapePage
  \/ EndKeyword
  \/ EndTarget

Spec == Init /\ [][Next]_vars

(***************************************************************************)
(* SmartDelayManager on its own: any sequence of wait_between_requests,    *)
(* record_success and record_error calls, with time passing in between,    *)
(* for several pairs of configured delays.                                 *)
(***************************************************************************)
\* (min_delay_between_requests, max_delay_between_requests) in seconds
DelayConfigs == { << 1, 5 >>, << 1, 2 >>, << 2, 3 >> }

\* what time.sleep and the statements around it take beyond the duration
\* asked for, in ticks
Oversleeps == {0, 1}

\* time the caller spends between two calls of the delay manager
ElapseSamples == {Seconds(2)}

\* the variables of the orchestrator that the delay manager does not touch
scraper_vars ==
  << config, pc, driver, ti, ki, page, consecutive_empty_pages, keyword_ads,
     target_ads, all_ads, successful_pages, failed_pages, total_ads_found,
     errors, captcha_count >>

DelayInit ==
  /\ config = DeepConfig
  /\ pc = "start"
  /\ SessionInit
  /\ WaitIdle
  /\ OuterIdle
  /\ \E c \in DelayConfigs : min_delay = Seconds(c[1]) /\ max_delay = Seconds(c[2])
  /\ last_request_time = << >>
  /\ now = 1

\* the sum of a sequence of at most one duration
Total(ds) == IF ds = << >> THEN 0 ELSE ds[1]

\* wait_between_requests (lines 16-37)
WaitBetweenRequests ==
  /\ now < Seconds(MaxSeconds)
  /\ \E jitter \in UniformSamples(PACING_JITTER_LOW, PACING_JITTER_HIGH),
        over \in Oversleeps :
       LET current_time == now
           base == base_delay(min_delay, max_delay, consecutive_errors)
           d == delay(base, jitter)
           slept == sleeps(d, last_request_time, current_time)
       IN  /\ now' = current_time + Total(slept) + over
           /\ last_request_time' = << now' >>
           /\ last' = [StepLog("wait_between_requests") EXCEPT
                         !.calls = << Call("base_delay", consecutive_errors, base),
                                      Call("delay", jitter, d) >>
                                   \o [i \in 1..Len(slept) |->
                                         Call("sleep", slept[i], slept[i])]]
  /\ UNCHANGED << scraper_vars, wait_vars, outer_vars, consecutive_errors, min_delay, max_delay >>

\* record_success (lines 39-41)
RecordSuccess ==
  /\ consecutive_errors' = record_success(CurrentM).consecutive_errors
  /\ last' = StepLog("record_success")
  /\ UNCHANGED << scraper_vars, wait_vars, outer_vars, pacing_vars >>

\* record_error (lines 43-45)
RecordError ==
  /\ consecutive_errors < MaxErrors
  /\ consecutive_errors' = record_error(CurrentM).consecutive_errors
  /\ last' = StepLog("record_error")
  /\ UNCHANGED << scraper_vars, wait_vars, outer_vars, pacing_vars >>

\* the caller works between two calls: the clock advances
Elapse ==
  /\ now < Seconds(MaxSeconds)
  /\ \E e \in ElapseSamples : now' = now + e
  /\ last' = StepLog("elapse")
  /\ UNCHANGED << scraper_vars, wait_vars, outer_vars, consecutive_errors, min_delay, max_delay,
                  last_request_time >>

DelayNext ==
  \/ WaitBetweenRequests
  \/ RecordSuccess
  \/ RecordError
  \/ Elapse

SpecDelay == DelayInit /\ [][DelayNext]_vars

(***************************************************************************)
(* CaptchaHandler.handle_captcha_manually as a blocking call: after the    *)
(* count and the ceiling test, WebDriverWait(driver, timeout).until polls  *)
(* "not detect_captcha(d)[0]" until it is true, the deadline has passed    *)
(* (TimeoutException, caught at line 94) or the poll raises an exception   *)
(* that is not NoSuchElementException (nothing catches it in this method). *)
(***************************************************************************)
\* config['timing']['captcha_wait_timeout'], in seconds
WaitTimeouts == 0..MaxTimeout

\* what one poll of detect_captcha does: a marker is displayed, no marker is
\* displayed, or the driver raises (stale element, window closed)
PollObservations == {"visible", "gone", "raise"}

\* the time one iteration of the poll takes (the poll interval and the
\* lookups of detect_captcha)
PollDurations == {Seconds(1), Seconds(2)}

\* the variables a manual wait leaves alone
wait_frame ==
  << config, pc, driver, ti, ki, page, consecutive_empty_pages, keyword_ads,
     target_ads, all_ads, successful_pages, failed_pages, total_ads_found,
     errors, consecutive_errors, min_delay, max_delay, last_request_time >>

WaitInit ==
  /\ config = DeepConfig
  /\ pc = "start"
  /\ SessionInit
  /\ PacingInit
  /\ WaitIdle
  /\ OuterIdle

\* mutant: a timeout is reported as a resolved CAPTCHA
WaitIteration_timeout_true(obs, t, deadline) ==
  IF obs = "raise" THEN [pc |-> "raised", result |-> "none"]
  ELSE IF obs = "gone" THEN [pc |-> "returned", result |-> "True"]
  ELSE IF t > deadline THEN [pc |-> "returned", result |-> "True"]
  ELSE [pc |-> "polling", result |-> "none"]

\* lines 87-96: one iteration of the poll; t is the clock after it
WaitIteration(obs, t, deadline) ==
  IF obs = "raise" THEN [pc |-> "raised", result |-> "none"]
  ELSE IF obs = "gone" THEN [pc |-> "returned", result |-> "True"]
  ELSE IF t > deadline THEN [pc |-> "returned", result |-> "False"]
  ELSE [pc |-> "polling", result |-> "none"]

\* lines 77-90: the call, up to the start of the poll; _scrape_page makes
\* it after detect_captcha found a marker, in an iteration that passed the
\* should_continue_scraping check
HandleCaptcha ==
  /\ wait_pc = "idle"
  /\ should_continue_scraping(captcha_count)
  /\ captcha_count' = captcha_count + 1
  /\ marker' = "visible"
  /\ \E timeout \in WaitTimeouts :
       IF captcha_count' > max_captcha_encounters
         THEN /\ wait_pc' = "returned"
              /\ wait_result' = "False"
              /\ end_time' = end_time
         ELSE /\ wait_pc' = "polling"
              /\ wait_result' = "none"
              /\ end_time' = now + Seconds(timeout)
  /\ last' = StepLog("handle_captcha_manually")
  /\ UNCHANGED << wait_frame, outer_vars, now >>

\* one iteration of WebDriverWait.until
Poll ==
  /\ wait_pc = "polling"
  /\ \E obs \in PollObservations, dur \in PollDurations :
       LET t == IF obs = "visible" THEN now + dur ELSE now
           w == WaitIteration(obs, t, end_time)
       IN  /\ now' = t
           /\ marker' = obs
           /\ wait_pc' = w.pc
           /\ wait_result' = w.result
  /\ last' = StepLog("poll")
  /\ UNCHANGED << wait_frame, outer_vars, captcha_count, end_time >>

\* the call is over; the crawl goes on until a later page shows a marker
NextCaptcha ==
  /\ wait_pc \in {"returned", "raised"}
  /\ wait_pc' = "idle"
  /\ wait_result' = "none"
  /\ marker' = "none"
  /\ \E e \in ElapseSamples : now' = now + e
  /\ last' = StepLog("next_captcha")
  /\ UNCHANGED << wait_frame, outer_vars, captcha_count, end_time >>

WaitNext ==
  \/ HandleCaptcha
  \/ Poll
  \/ NextCaptcha

\* the thread blocked in WebDriverWait.until keeps iterating
SpecWait == WaitInit /\ [][WaitNext]_vars /\ WF_vars(Poll)

(***************************************************************************)
(* Vocabulary of the properties.                                           *)
(***************************************************************************)
\* this step is an iteration of the page loop that navigates to a page
FetchStep == pc = "page_loop" /\ last'.action = "ScrapePage"

\* this step leaves the page loop at one of the two checks at its top
BreakStep == pc = "page_loop" /\ last'.action = "BudgetBreak"

\* the last step navigated to a page
Fetched == last.action = "ScrapePage"

CallsOf(calls, op) == {i \in 1..Len(calls) : calls[i].op = op}

\* a CAPTCHA was detected in the logged iteration and the manual wait ended
\* with the marker gone: the rate-limit check follows the wait
CaptchaResolvedIn(calls) ==
  \E i \in 1..(Len(calls) - 1) :
     calls[i].op = "WebDriverWait" /\ calls[i + 1].op = "detect_rate_limiting"

\* C1: once captcha_count > max_captcha_encounters, should_continue_scraping()
\* is False (it is True exactly when captcha_count <= max_captcha_encounters),
\* the count stays above the ceiling, and no later step navigates to a page.
C1_NoFetchAboveCeiling ==
  [][ /\ should_continue_scraping(captcha_count)
         <=> (captcha_count <= max_captcha_encounters)
      /\ (captcha_count > max_captcha_encounters) =>
            /\ ~should_continue_scraping(captcha_count)
            /\ ~FetchStep
            /\ captcha_count' > max_captcha_encounters ]_vars

\* C1 witness: the page loop was left because of the CAPTCHA ceiling alone
C1_Witness ==
  /\ last.outcome = "budget_break"
  /\ captcha_count > max_captcha_encounters
  /\ ~ErrorBudgetExceeded(errors)

\* C2: for every keyword consecutive_empty_pages starts at 0 (with the page
\* loop at page 1), a fetched page with at least one record resets it to 0, a
\* successful page without records increments it, the iteration in which
\* it reaches max_empty_pages (3) leaves the page loop, and no page is
\* fetched while it is at 3.
C2_EmptyPageCounter ==
  [][ /\ (pc \in {"target_start", "keyword_end"} /\ pc' = "page_loop") =>
            (consecutive_empty_pages' = 0 /\ page' = 1)
      /\ (FetchStep /\ last'.success /\ last'.n_ads > 0) =>
            consecutive_empty_pages' = 0
      /\ (FetchStep /\ last'.success /\ last'.n_ads = 0) =>
            consecutive_empty_pages' = consecutive_empty_pages + 1
      /\ (FetchStep /\ consecutive_empty_pages' >= max_empty_pages) =>
            pc' = "keyword_end"
      /\ (consecutive_empty_pages >= max_empty_pages) => ~FetchStep ]_vars

\* C2 witness: a keyword's pagination stopped at three empty pages with a
\* page of the range left unfetched
C2_Witness ==
  /\ pc = "keyword_end"
  /\ consecutive_empty_pages = max_empty_pages
  /\ last.action = "ScrapePage"
  /\ page <= max_pages

\* C3 (as claimed): every fetch that ends successful, with or without
\* records, increments successful_pages by one, calls record_success()
\* once and leaves failed_pages unchanged.
C3_SuccessCounted ==
  [][ (FetchStep /\ last'.success) =>
        /\ successful_pages' = successful_pages + 1
        /\ Cardinality(CallsOf(last'.calls, "record_success")) = 1
        /\ failed_pages' = failed_pages ]_vars

\* C4: a page is fetched only from a state with len(errors) <=
\* max_consecutive_errors; with len(errors) = max_consecutive_errors (and the
\* CAPTCHA ceiling respected) the iteration fetches; with len(errors) >
\* max_consecutive_errors it leaves the page loop of the keyword.
C4_ErrorBudgetCheck ==
  [][ /\ FetchStep => Len(errors) <= max_consecutive_errors
      /\ ( /\ pc = "page_loop"
           /\ Len(errors) = max_consecutive_errors
           /\ should_continue_scraping(captcha_count) ) => FetchStep
      /\ (pc = "page_loop" /\ Len(errors) > max_consecutive_errors) =>
            (BreakStep /\ pc' = "keyword_end" /\ ki' = ki /\ page' = page) ]_vars

\* C4 witness: a page was fetched and extracted with the error list exactly
\* at the budget
C4_Witness ==
  /\ Fetched
  /\ last.outcome = "extracted"
  /\ max_consecutive_errors > 0
  /\ Len(errors) = max_consecutive_errors

\* a budget is breached in the current state
Breached ==
  ErrorBudgetExceeded(errors) \/ ~should_continue_scraping(captcha_count)

\* C5: with a budget breached, an iteration of the page loop only leaves the
\* page loop of its keyword (same target, same keyword, browser kept, no
\* data lost); the following keywords and targets are still entered, and
\* the run never ends by raising.
C5_BreachAbortsKeywordOnly ==
  [][ Breached =>
        /\ pc' # "raised"
        /\ (pc = "page_loop") =>
              /\ pc' = "keyword_end"
              /\ UNCHANGED << ti, ki, driver, keyword_ads, target_ads, all_ads >>
        /\ (pc = "keyword_end" /\ ki < Len(Targets[ti].keywords)) =>
              (pc' = "page_loop" /\ ki' = ki + 1 /\ ti' = ti)
        /\ (pc = "keyword_end" /\ ki >= Len(Targets[ti].keywords)) =>
              pc' = "target_end"
        /\ (pc = "target_end" /\ ti < Len(Targets)) =>
              (pc' = "target_start" /\ ti' = ti + 1)
        /\ (pc = "target_start") => (pc' = "page_loop" /\ ti' = ti)
        /\ (pc' = "done") => (pc = "target_end" /\ ti = Len(Targets)) ]_vars

\* C5 witness: the second target's page loop was reached and left with the
\* error budget breached during the first target
C5_Witness ==
  /\ last.outcome = "budget_break"
  /\ last.target = 2
  /\ ErrorBudgetExceeded(errors)

\* C6 (as claimed): a fetch that ends in one of the two exception handlers
\* appends exactly one entry to errors, increments failed_pages by one, calls
\* record_error() once, appends no records, sleeps the 10 s penalty last and
\* stays inside the loops.
C6_DriverFailureHandled ==
  [][ (FetchStep /\ last'.outcome \in {"webdriver_exception", "exception"}) =>
        /\ Len(errors') = Len(errors) + 1
        /\ SubSeq(errors', 1, Len(errors)) = errors
        /\ failed_pages' = failed_pages + 1
        /\ Cardinality(CallsOf(last'.calls, "record_error")) = 1
        /\ consecutive_errors' = consecutive_errors + 1
        /\ keyword_ads' = keyword_ads
        /\ last'.calls[Len(last'.calls)] = Call("sleep", 10, 10)
        /\ pc' \in {"page_loop", "keyword_end"} ]_vars

\* the records _scrape_page returns for n extracted elements of the page
\* the loop is at
PageRecords(n) ==
  [i \in 1..n |-> Ad(Targets[ti].category, Targets[ti].keywords[ki], page)]

\* C7: a fetch on which a CAPTCHA is detected and resolved within the
\* timeout increments captcha_count by exactly one and is otherwise
\* processed as the same page without a CAPTCHA: same outcome, same records,
\* same counters; when its N records are extracted, failed_pages is
\* unchanged and exactly those N records are appended to keyword_ads.
C7_ResolvedCaptchaIsNormalPage ==
  /\ [][ (FetchStep /\ CaptchaResolvedIn(last'.calls)) =>
            /\ captcha_count' = captcha_count + 1
            /\ (last'.outcome = "extracted") =>
                  /\ failed_pages' = failed_pages
                  /\ successful_pages' = successful_pages + 1
                  /\ keyword_ads' = keyword_ads \o PageRecords(last'.n_ads) ]_vars
  /\ [] ( (pc = "page_loop" /\ captcha_count < max_captcha_encounters) =>
            \A b \in PageBehaviours :
               (b.captcha /\ b.resolved) =>
                  LET with == scrape_page(CurrentM, Targets[ti].category,
                                          Targets[ti].keywords[ki], page, b)
                      plain == scrape_page(CurrentM, Targets[ti].category,
                                           Targets[ti].keywords[ki], page,
                                           [b EXCEPT !.captcha = FALSE,
                                                     !.resolved = FALSE])
                  IN  /\ with.outcome = plain.outcome
                      /\ with.success = plain.success
                      /\ with.ads = plain.ads
                      /\ with.m.captcha_count = plain.m.captcha_count + 1
                      /\ with.m.successful_pages = plain.m.successful_pages
                      /\ with.m.failed_pages = plain.m.failed_pages
                      /\ with.m.errors = plain.m.errors
                      /\ with.m.consecutive_errors = plain.m.consecutive_errors )

\* C7 witness: a page with a resolved CAPTCHA was extracted with records
C7_Witness ==
  /\ Fetched
  /\ last.outcome = "extracted"
  /\ CaptchaResolvedIn(last.calls)
  /\ last.n_ads >= 1
  /\ captcha_count = 1
  /\ failed_pages = 0
  /\ Len(keyword_ads) = last.n_ads

\* C8 (as claimed): a fetch whose CAPTCHA stays unresolved records an error,
\* increments failed_pages by one, appends no records and stays inside the
\* loops.
C8_UnresolvedCaptchaFailsPage ==
  [][ (FetchStep /\ last'.outcome = "captcha_unresolved") =>
        /\ Len(errors') = Len(errors) + 1
        /\ failed_pages' = failed_pages + 1
        /\ keyword_ads' = keyword_ads
        /\ pc' \in {"page_loop", "keyword_end"} ]_vars

\* C9 (as claimed): a fetch on which rate-limit text is detected increments
\* failed_pages by one, leaves successful_pages unchanged, skips extraction
\* and appends no records.
C9_RateLimitFailsPage ==
  [][ (FetchStep /\ last'.outcome = "rate_limited") =>
        /\ failed_pages' = failed_pages + 1
        /\ successful_pages' = successful_pages
        /\ CallsOf(last'.calls, "find_elements") = {}
        /\ keyword_ads' = keyword_ads ]_vars

\* C10: wait_after_captcha is called exactly once in an iteration that
\* detects rate-limit text and in no other step; every call has base 60 and
\* sleeps between 70 and 90 seconds.
C10_CooldownOnlyOnRateLimit ==
  LET w == CallsOf(last.calls, "wait_after_captcha")
  IN  /\ (Fetched /\ last.outcome = "rate_limited") => Cardinality(w) = 1
      /\ ~(Fetched /\ last.outcome = "rate_limited") => w = {}
      /\ \A i \in w : /\ last.calls[i].arg = 60
                      /\ last.calls[i].dur >= 70
                      /\ last.calls[i].dur <= 90

\* C10 witness: a rate-limited page whose cooldown took the longest sleep
C10_Witness ==
  /\ Fetched
  /\ last.outcome = "rate_limited"
  /\ \E i \in CallsOf(last.calls, "wait_after_captcha") : last.calls[i].dur = 90

\* C11: a fetch on which no rate-limit text is found and the ad container
\* does not appear within the timeout records exactly one failed page,
\* leaves successful_pages, errors and the keyword's records unchanged, and
\* the page loop goes on with the next page of the same keyword (it ends only
\* when this was the last page of the range).
C11_LoadTimeoutFailsPage ==
  [][ (FetchStep /\ last'.outcome = "load_timeout") =>
        /\ failed_pages' = failed_pages + 1
        /\ successful_pages' = successful_pages
        /\ errors' = errors
        /\ keyword_ads' = keyword_ads
        /\ last'.n_ads = 0
        /\ CallsOf(last'.calls, "find_elements") = {}
        /\ consecutive_empty_pages' = consecutive_empty_pages
        /\ ti' = ti /\ ki' = ki /\ page' = page + 1
        /\ pc' = IF page < max_pages THEN "page_loop" ELSE "keyword_end" ]_vars

\* C11 witness: a page without CAPTCHA timed out loading and the loop stands
\* at the next page of the same keyword
C11_Witness ==
  /\ Fetched
  /\ last.outcome = "load_timeout"
  /\ CallsOf(last.calls, "handle_captcha_manually") = {}
  /\ pc = "page_loop"
  /\ page = last.page + 1
  /\ failed_pages = 1

\* C12: every call of handle_captcha_manually increments captcha_count by
\* exactly one, whatever happens afterwards in the call (return or exception
\* out of the poll); when the incremented count is above
\* max_captcha_encounters the call returns False without a WebDriverWait
\* poll: it is the last collaborator call of _scrape_page, which returns
\* (ads, False).
C12_CeilingCheckedBeforePoll ==
  [][ \A i \in CallsOf(last'.calls, "handle_captcha_manually") :
        /\ FetchStep
        /\ Cardinality(CallsOf(last'.calls, "handle_captcha_manually")) = 1
        /\ captcha_count' = captcha_count + 1
        /\ (captcha_count' > max_captcha_encounters) =>
              /\ CallsOf(last'.calls, "WebDriverWait") = {}
              /\ last'.outcome = "captcha_unresolved"
              /\ ~last'.success
              /\ last'.calls[i + 1] = Call("sleep", FAIL_SLEEP, FAIL_SLEEP)
              /\ Len(last'.calls) = i + 1
        /\ (captcha_count' <= max_captcha_encounters) =>
              last'.calls[i + 1].op = "WebDriverWait" ]_vars

\* C12 witness: a CAPTCHA detected with the count at the ceiling was turned
\* down without a poll
C12_Witness ==
  /\ Fetched
  /\ CallsOf(last.calls, "handle_captcha_manually") # {}
  /\ CallsOf(last.calls, "WebDriverWait") = {}
  /\ captcha_count = max_captcha_encounters + 1
  /\ last.outcome = "captcha_unresolved"

\* a visible CAPTCHA marker was detected in the logged iteration:
\* detect_captcha was called and _scrape_page went on to
\* handle_captcha_manually
CaptchaDetectedIn(calls) ==
  \E i \in 1..(Len(calls) - 1) :
     calls[i].op = "detect_captcha" /\ calls[i + 1].op = "handle_captcha_manually"

\* s is t with entries appended at its end
IsPrefix(s, t) == Len(s) <= Len(t) /\ SubSeq(t, 1, Len(s)) = s

\* C14: in every step successful_pages, failed_pages, total_ads_found and
\* captcha_count do not decrease and errors keeps its entries in place, new
\* ones being appended at its end; captcha_count grows by exactly one in a
\* step that detects a CAPTCHA (whether the wait then succeeds, fails or
\* raises) and is unchanged in every other step.
C14_CountersMonotone ==
  [][ /\ successful_pages' >= successful_pages
      /\ failed_pages' >= failed_pages
      /\ total_ads_found' >= total_ads_found
      /\ captcha_count' >= captcha_count
      /\ IsPrefix(errors, errors')
      /\ CaptchaDetectedIn(last'.calls) => captcha_count' = captcha_count + 1
      /\ ~CaptchaDetectedIn(last'.calls) => captcha_count' = captcha_count ]_vars

\* C14 witness: the wait after a detected CAPTCHA timed out and the count
\* kept its increment, with an earlier error entry still in place
C14_Witness ==
  /\ Fetched
  /\ last.outcome = "captcha_unresolved"
  /\ CallsOf(last.calls, "WebDriverWait") # {}
  /\ captcha_count = 1
  /\ Len(errors) >= 1
  /\ failed_pages >= 1

\* C15: under any interleaving of record_success and record_error calls
\* consecutive_errors is never negative; record_error adds exactly 1,
\* record_success subtracts 1 from a positive count and leaves 0 at 0.
C15_ConsecutiveErrorsFloor ==
  /\ [](consecutive_errors >= 0)
  /\ [][ /\ (last'.action = "record_error") =>
               consecutive_errors' = consecutive_errors + 1
         /\ (last'.action = "record_success" /\ consecutive_errors > 0) =>
               consecutive_errors' = consecutive_errors - 1
         /\ (last'.action = "record_success" /\ consecutive_errors = 0) =>
               consecutive_errors' = 0 ]_vars

\* C15 witness: record_success was the last call on a delay manager that
\* has paced a request, and the count stands at 0
C15_Witness ==
  /\ last.action = "record_success"
  /\ consecutive_errors = 0
  /\ Truthy(last_request_time)

\* the last step was a call of wait_between_requests
Paced == last.action = "wait_between_requests"

\* consecutive_errors and base_delay of the logged wait_between_requests call
PacedErrors == last.calls[1].arg
PacedBase == last.calls[1].dur

\* the jitter (in fifths) and the delay of the logged call
PacedJitter == last.calls[2].arg
PacedDelay == last.calls[2].dur

\* C16 (as claimed): whenever wait_between_requests runs with
\* consecutive_errors >= 5, the base delay it computes equals max_delay.
C16_SaturatesAtMaxDelay ==
  (Paced /\ PacedErrors >= BACKOFF_CAP) => PacedBase = max_delay

\* C16 (amended): from 5 consecutive errors on the base delay no longer
\* grows: it is min(min_delay * 1.2^5, max_delay) for every
\* consecutive_errors >= 5, which is max_delay exactly when
\* min_delay * 1.2^5 >= max_delay.
C16_SaturatesAtCappedBackoff ==
  (Paced /\ PacedErrors >= BACKOFF_CAP) =>
     /\ PacedBase <= max_delay
     /\ PacedBase = max_delay
          <=> (min_delay * (BACKOFF_NUM ^ BACKOFF_CAP)
                 >= max_delay * (BACKOFF_DEN ^ BACKOFF_CAP))
     /\ PacedBase < max_delay
          => (PacedBase * (BACKOFF_DEN ^ BACKOFF_CAP)
                = min_delay * (BACKOFF_NUM ^ BACKOFF_CAP))
     /\ \A e \in BACKOFF_CAP..MaxErrors :
           base_delay(min_delay, max_delay, e) = PacedBase

\* C16 witness: a request paced after more than 5 consecutive errors with a
\* base delay below max_delay
C16_Witness ==
  /\ Paced
  /\ PacedErrors > BACKOFF_CAP
  /\ PacedBase < max_delay

\* this step is a call of wait_between_requests
PacingStep == last'.action = "wait_between_requests"

\* the durations of the time.sleep calls of a logged call
SleptIn(calls) == {calls[i].arg : i \in CallsOf(calls, "sleep")}

\* C17: a call of wait_between_requests with a previous request time sleeps
\* exactly max(0, delay - elapsed) (no sleep at all when that is 0), a call
\* without one sleeps the whole delay; afterwards last_request_time is the
\* clock after waking, so it is never None after a call and two successive
\* values of it are at least the second call's delay apart.
C17_RateLimiter ==
  [][ PacingStep =>
        LET d == last'.calls[2].dur
            slept == SleptIn(last'.calls)
        IN  /\ Truthy(last_request_time) =>
                  LET elapsed == now - last_request_time[1]
                  IN  /\ (d - elapsed > 0) => slept = {d - elapsed}
                      /\ (d - elapsed <= 0) => slept = {}
            /\ ~Truthy(last_request_time) => slept = {d}
            /\ last_request_time' = << now' >>
            /\ \A t \in slept : now' >= now + t
            /\ now' >= now
            /\ last_request_time' # << >>
            /\ (last_request_time # << >>) =>
                  last_request_time'[1] - last_request_time[1] >= d ]_vars

\* C17 witness: a call that found a previous request time and slept only a
\* part of its delay
C17_Witness ==
  /\ Paced
  /\ \E t \in SleptIn(last.calls) : t > 0 /\ t + Seconds(1) < PacedDelay
  /\ last_request_time = << now >>

\* C18: no call of wait_between_requests sleeps longer than 1.2 times its
\* base delay, hence never longer than 1.2 times max_delay; the first call
\* (no previous request time) sleeps once, between 0.8 and 1.2 times the base
\* delay, which for min_delay = 1 s, max_delay = 5 s and no consecutive
\* errors is between 0.8 and 1.2 seconds.
C18_SleepBounds ==
  [][ PacingStep =>
        LET base == last'.calls[1].dur
            slept == SleptIn(last'.calls)
        IN  /\ Cardinality(CallsOf(last'.calls, "sleep")) <= 1
            /\ \A t \in slept :
                  /\ t * JITTER_DEN <= PACING_JITTER_HIGH * base
                  /\ t * JITTER_DEN <= PACING_JITTER_HIGH * max_delay
            /\ (last_request_time = << >>) =>
                  /\ Cardinality(CallsOf(last'.calls, "sleep")) = 1
                  /\ \A t \in slept :
                        /\ PACING_JITTER_LOW * base <= t * JITTER_DEN
                        /\ ( /\ min_delay = Seconds(1)
                             /\ max_delay = Seconds(5)
                             /\ consecutive_errors = 0 ) =>
                              /\ base = Seconds(1)
                              /\ 5 * t >= 4 * Seconds(1)
                              /\ 5 * t <= 6 * Seconds(1) ]_vars

\* C18 witness: the first request of a manager with delays of 1 and 5
\* seconds and no errors slept the longest possible 1.2 seconds
C18_Witness ==
  /\ Paced
  /\ min_delay = Seconds(1)
  /\ max_delay = Seconds(5)
  /\ PacedErrors = 0
  /\ PacedJitter = PACING_JITTER_HIGH
  /\ SleptIn(last.calls) = {(6 * Seconds(1)) \div 5}
  /\ last_request_time[1] <= 1 + (6 * Seconds(1)) \div 5 + 1

\* the call of handle_captcha_manually in progress or just ended passed the
\* ceiling test
WithinCeiling == captcha_count <= max_captcha_encounters

TargetCompleted == pc = "target_end" /\ last'.action = "EndTarget"

\* the 30-second pause between targets was taken in the logged step
PausedIn(calls) ==
  \E i \in CallsOf(calls, "sleep") : calls[i].arg = TARGET_PAUSE

\* C19 (as claimed): targets are taken one after the other in the order of
\* the list, and the 30-second pause is taken after a completed target
\* exactly when it is not at the last position of the list, whatever the
\* entries of the list are.
C19_PauseExceptAfterLast ==
  [][ /\ (ti' # ti) => (ti' = ti + 1 /\ ti' <= Len(Targets))
      /\ TargetCompleted => (PausedIn(last'.calls) <=> ti < Len(Targets)) ]_vars

\* C20 (as claimed): when scrape_target raises for a target, the exception
\* does not leave scrape_all_targets, the records gathered so far are kept,
\* and the run goes on with the next target or, after the last one, returns.
C20_TargetExceptionContained ==
  [][ (pc = "target_start" /\ ~WellFormed(Targets[ti])) =>
        /\ pc' # "raised"
        /\ all_ads' = all_ads
        /\ (ti < Len(Targets)) => (pc' = "target_start" /\ ti' = ti + 1)
        /\ (ti = Len(Targets)) => pc' = "done" ]_vars

\* mutant: the rate is taken over the failed pages alone
success_rate_over_failed(successful, failed) ==
  IF failed > 0
    THEN [num |-> successful * 100, den |-> failed]
    ELSE [num |-> 0, den |-> 1]

\* ScrapingSession.success_rate, as the fraction num / den:
\* (successful_pages / total * 100) if total > 0 else 0
success_rate(successful, failed) ==
  LET total == successful + failed
  IN  IF total > 0
        THEN [num |-> successful * 100, den |-> total]
        ELSE [num |-> 0, den |-> 1]

(***************************************************************************)
(* CaptchaHandler.detect_captcha studied alone: one call on a page whose   *)
(* elements are drawn at the start.                                        *)
(***************************************************************************)
CAPTCHA_SELECTORS ==
  << "iframe[src*='recaptcha']", "iframe[src*='hcaptcha']",
     "div[class*='captcha']", "div[id*='captcha']",
     ".cf-browser-verification", "#challenge-form", "[data-testid*='captcha']" >>

\* what the driver does for one selector: find_element raises
\* NoSuchElementException ("absent"), gives an element that is_displayed
\* reports as hidden or visible, or the lookup fails otherwise ("error")
ElementStates == {"absent", "hidden", "visible", "error"}

Doms == [1..Len(CAPTCHA_SELECTORS) -> ElementStates]

\* the loop goes on to the next selector after NoSuchElementException and
\* after an element that is not displayed
Passed(state) == state \in {"absent", "hidden"}

NotDetected == [raised |-> FALSE, found |-> FALSE, selector |-> "None"]

Detected(selector) == [raised |-> FALSE, found |-> TRUE, selector |-> selector]

\* an exception other than NoSuchElementException leaves detect_captcha
DetectRaised == [raised |-> TRUE, found |-> FALSE, selector |-> "None"]

\* mutant: the last visible marker of the list is reported
detect_captcha_on_last_match(d) ==
  LET hits == {i \in 1..Len(CAPTCHA_SELECTORS) : d[i] = "visible"}
  IN  IF hits = {}
        THEN NotDetected
        ELSE Detected(CAPTCHA_SELECTORS[CHOOSE i \in hits : \A j \in hits : i >= j])

\* lines 37-52: the for loop ends at the first selector it does not pass
detect_captcha_on(d) ==
  LET stops == {i \in 1..Len(CAPTCHA_SELECTORS) : ~Passed(d[i])}
  IN  IF stops = {}
        THEN NotDetected
        ELSE LET first == CHOOSE i \in stops : \A j \in stops : i <= j
             IN  IF d[first] = "visible"
                   THEN Detected(CAPTCHA_SELECTORS[first])
                   ELSE DetectRaised

\* everything the run of the scraper holds
run_vars ==
  << scraper_vars, consecutive_errors, last, pacing_vars, wait_vars >>

DetectInit ==
  /\ config = DeepConfig
  /\ pc = "start"
  /\ SessionInit
  /\ PacingInit
  /\ WaitIdle
  /\ app = "none"
  /\ dom \in Doms
  /\ returned = << >>

\* captcha_detected, selector = self.captcha_handler.detect_captcha(driver)
DetectCaptcha ==
  /\ returned = << >>
  /\ returned' = << detect_captcha_on(dom) >>
  /\ UNCHANGED << run_vars, app, dom >>

DetectNext == DetectCaptcha

SpecDetect == DetectInit /\ [][DetectNext]_vars

(***************************************************************************)
(* AdvancedScraper._extract_ad_data studied alone: one call on an ad       *)
(* element whose fields are drawn at the start.                            *)
(***************************************************************************)
TITLE_UNAVAILABLE == "Titre non disponible"

PRICE_UNAVAILABLE == "Prix non disponible"

\* what the lookups on one ad element do: the sub-element has text, has only
\* blank text, is not there (NoSuchElementException), or the lookup fails
\* otherwise, e.g. on a stale element ("error")
TitleStates == {"text", "blank", "missing", "error"}

PriceStates == {"text", "missing", "error"}

HrefStates == {"url", "none", "error"}

LocationStates == {"text", "missing", "error"}

\* an ad element, and whether the selectors in use have a 'location' entry
AdElements ==
  [title : TitleStates, price : PriceStates, href : HrefStates,
   location : LocationStates, has_location : BOOLEAN]

\* element.text.strip() of a sub-element that was found
StrippedText(state, text) == IF state = "blank" THEN "" ELSE text

\* mutant: the dataclass keeps the title it is given
post_init_title_kept(title) == title

\* Ad.__post_init__: self.title.strip() if self.title else the sentinel
post_init_title(title) == IF title # "" THEN title ELSE TITLE_UNAVAILABLE

\* some lookup raises an exception that is not NoSuchElementException
ExtractionFaults(e) ==
  \/ e.title = "error"
  \/ e.price = "error"
  \/ e.href = "error"
  \/ e.has_location /\ e.location = "error"

\* lines 95-133: << >> is None, << ad >> the Ad that was built
extract_ad_data(e) ==
  IF ExtractionFaults(e)
    THEN << >>
    ELSE << [title |-> post_init_title(
                         IF e.title = "missing"
                           THEN TITLE_UNAVAILABLE
                           ELSE StrippedText(e.title, "a title")),
             price |-> IF e.price = "missing"
                         THEN PRICE_UNAVAILABLE
                         ELSE StrippedText(e.price, "10 EUR"),
             url |-> IF e.href = "url" THEN "https://ad" ELSE "",
             location |-> IF e.has_location /\ e.location = "text"
                            THEN "a place"
                            ELSE ""] >>

ExtractInit ==
  /\ config = DeepConfig
  /\ pc = "start"
  /\ SessionInit
  /\ PacingInit
  /\ WaitIdle
  /\ app = "none"
  /\ dom \in AdElements
  /\ returned = << >>

\* ad_data = self._extract_ad_data(ad_element) (line 181)
ExtractAdData ==
  /\ returned = << >>
  /\ returned' = << extract_ad_data(dom) >>
  /\ UNCHANGED << run_vars, app, dom >>

ExtractNext == ExtractAdData

SpecExtract == ExtractInit /\ [][ExtractNext]_vars

(***************************************************************************)
(* ScrapingApp (main.py): run, the signal handler and the browser manager  *)
(* it closes.  The fetches of scrape_all_targets are counted only; start() *)
(* and close() are taken in the steps a signal can fall between.           *)
(*   app.pc = "run"         run() has been entered                         *)
(*   app.pc = "confirm"     the scraper is built, the question is asked    *)
(*   app.pc = "enter"       scrape_all_targets is about to be called       *)
(*   app.pc = "post_start"  start(): self.driver is set (line 82), the     *)
(*                          settings of lines 85-91 are still to be made   *)
(*   app.pc = "scraping"    inside the with-statement                      *)
(*   app.pc = "quitting"    close(): inside self.driver.quit()             *)
(*   app.pc = "export"      scrape_all_targets has returned                *)
(*   app.pc = "returned"    run() has returned                             *)
(*   app.pc = "exited"      sys.exit has been called                       *)
(***************************************************************************)
MaxFetches == 2

\* what the user types at the [y/N] question, as characters
Answers ==
  { << >>, << "y" >>, << "Y" >>, << "n" >>, << "N" >>,
    << "y", "e", "s" >>, << "Y", "E", "S" >>, << "o", "u", "i" >> }

\* str.lower() on the characters that occur
LowerChar(c) ==
  CASE c = "Y" -> "y"
    [] c = "E" -> "e"
    [] c = "S" -> "s"
    [] c = "N" -> "n"
    [] OTHER -> c

lower(s) == [i \in 1..Len(s) |-> LowerChar(s[i])]

startswith(s, c) == Len(s) >= 1 /\ s[1] = c

\* mutant: anything but a "no" goes on with the scraping
Confirms_unless_no(answer) == ~startswith(lower(answer), "n")

\* line 132: console.input(...).lower().startswith('y')
Confirms(answer) == startswith(lower(answer), "y")

AppInit ==
  /\ config = DeepConfig
  /\ pc = "new"
  /\ SessionInit
  /\ PacingInit
  /\ WaitIdle
  /\ dom = "none"
  /\ returned = << >>
  /\ \E d \in BOOLEAN, a \in Answers :
       app = [pc |-> "run", scraper |-> FALSE, interrupted |-> FALSE,
              dry_run |-> d, answer |-> a, invoked |-> FALSE, quits |-> 0,
              fetched |-> 0, ads |-> 0, exported |-> FALSE, status |-> "none"]

\* everything but app and the manager's driver
app_frame ==
  << config, pc, ti, ki, page, consecutive_empty_pages, keyword_ads,
     target_ads, all_ads, successful_pages, failed_pages, total_ads_found,
     errors, captcha_count, consecutive_errors, last, pacing_vars, wait_vars,
     dom, returned >>

\* lines 119-129: the scraper is built; a dry run returns here
AppConstruct ==
  /\ app.pc = "run"
  /\ app' = [app EXCEPT !.scraper = TRUE,
                        !.pc = IF app.dry_run THEN "returned" ELSE "confirm"]
  /\ UNCHANGED << app_frame, driver >>

\* AdvancedScraper(config_path) raises ConfigurationError: sys.exit(1)
AppConstructFail ==
  /\ app.pc = "run"
  /\ app' = [app EXCEPT !.pc = "exited", !.status = "1"]
  /\ UNCHANGED << app_frame, driver >>

\* lines 132-134: the question and the answer
AppConfirm ==
  /\ app.pc = "confirm"
  /\ app' = [app EXCEPT !.pc = IF Confirms(app.answer) THEN "enter" ELSE "returned"]
  /\ UNCHANGED << app_frame, driver >>

\* scrape_all_targets is called; __enter__ calls start(), which creates the
\* browser and assigns it to self.driver (line 82)
AppBrowserCreate ==
  /\ app.pc = "enter"
  /\ app' = [app EXCEPT !.pc = "post_start", !.invoked = TRUE]
  /\ driver' = "chrome"
  /\ UNCHANGED app_frame

\* webdriver.Chrome raises: WebDriverException, ScrapingError, sys.exit(1)
AppBrowserCreateFail ==
  /\ app.pc = "enter"
  /\ app' = [app EXCEPT !.pc = "exited", !.invoked = TRUE, !.status = "1"]
  /\ UNCHANGED << app_frame, driver >>

\* lines 85-95: the timeouts and the script are set, start() returns
AppBrowserSetup ==
  /\ app.pc = "post_start"
  /\ app' = [app EXCEPT !.pc = "scraping"]
  /\ UNCHANGED << app_frame, driver >>

\* one of lines 85-91 raises: ScrapingError and sys.exit(1), with self.driver
\* as it is
AppBrowserSetupFail ==
  /\ app.pc = "post_start"
  /\ app' = [app EXCEPT !.pc = "exited", !.status = "1"]
  /\ UNCHANGED << app_frame, driver >>

\* one page is fetched and gives some records or none
AppFetch ==
  /\ app.pc = "scraping"
  /\ app.fetched < MaxFetches
  /\ \E n \in 0..MaxAds :
       app' = [app EXCEPT !.fetched = @ + 1, !.ads = @ + n]
  /\ UNCHANGED << app_frame, driver >>

\* the with-statement is left: __exit__ calls close(), which calls
\* self.driver.quit() (lines 119-121)
AppCloseQuit ==
  /\ app.pc = "scraping"
  /\ IF driver # "None"
       THEN app' = [app EXCEPT !.pc = "quitting", !.quits = @ + 1]
       ELSE app' = [app EXCEPT !.pc = "export"]
  /\ UNCHANGED << app_frame, driver >>

\* quit() has returned: the finally clause clears self.driver (lines 125-127)
\* and scrape_all_targets returns
AppCloseDone ==
  /\ app.pc = "quitting"
  /\ driver' = "None"
  /\ app' = [app EXCEPT !.pc = "export"]
  /\ UNCHANGED app_frame

\* lines 153-176: the export, made only for a non-empty result
AppExport ==
  /\ app.pc = "export"
  /\ app' = [app EXCEPT !.pc = "returned", !.exported = (app.ads > 0)]
  /\ UNCHANGED << app_frame, driver >>

\* _signal_handler (lines 41-47), run between two steps of the main thread:
\* close() quits and clears a driver the manager holds, then sys.exit(0);
\* the close() of a with-statement being left by SystemExit finds no driver
Signal ==
  /\ app.pc \notin {"returned", "exited"}
  /\ IF app.scraper /\ driver # "None"
       THEN /\ driver' = "None"
            /\ app' = [app EXCEPT !.interrupted = TRUE, !.quits = @ + 1,
                                  !.pc = "exited", !.status = "0"]
       ELSE /\ driver' = driver
            /\ app' = [app EXCEPT !.interrupted = TRUE,
                                  !.pc = "exited", !.status = "0"]
  /\ UNCHANGED app_frame

AppNext ==
  \/ AppConstruct
  \/ AppConstructFail
  \/ AppConfirm
  \/ AppBrowserCreate
  \/ AppBrowserCreateFail
  \/ AppBrowserSetup
  \/ AppBrowserSetupFail
  \/ AppFetch
  \/ AppCloseQuit
  \/ AppCloseDone
  \/ AppExport
  \/ Signal

SpecApp == AppInit /\ [][AppNext]_vars

(***************************************************************************)
(* GenericScraper.wait_for_ads_or_captcha (src/scraper.py) studied alone:  *)
(* one call on a page whose ad container and CAPTCHA iframe are drawn at   *)
(* the start.  Times are in polls of the WebDriverWait.                    *)
(***************************************************************************)
\* the ad container is there from some poll on, never, or looking for it
\* fails with an exception that is not a timeout
ContainerStates ==
  {[state |-> "appears", at |-> t] : t \in 0..(MaxTimeout + 1)}
    \cup {[state |-> "never", at |-> 0], [state |-> "error", at |-> 0]}

\* find_element for the reCAPTCHA iframe: found, NoSuchElementException, or
\* another exception
IframeStates == {"present", "absent", "error"}

FetchedPages == [ads : ContainerStates, iframe : IframeStates, timeout : WaitTimeouts]

\* WebDriverWait(...).until(presence_of_all_elements_located) returns
AdsWithinTimeout(d) == d.ads.state = "appears" /\ d.ads.at <= d.timeout

\* lines 43-49
is_captcha_present(d) ==
  CASE d.iframe = "present" -> "True"
    [] d.iframe = "absent" -> "False"
    [] OTHER -> "raise"

\* mutant: the CAPTCHA iframe is looked for before the ads are waited for
wait_for_ads_or_captcha_iframe_first(d) ==
  IF is_captcha_present(d) = "True" THEN "captcha_detected"
  ELSE IF AdsWithinTimeout(d) THEN "ads_loaded"
  ELSE "timeout_no_ads"

\* lines 51-61: only TimeoutException is caught
wait_for_ads_or_captcha(d) ==
  IF d.ads.state = "error" THEN "raise"
  ELSE IF AdsWithinTimeout(d) THEN "ads_loaded"
  ELSE CASE is_captcha_present(d) = "True" -> "captcha_detected"
         [] is_captcha_present(d) = "False" -> "timeout_no_ads"
         [] OTHER -> "raise"

ClassifyInit ==
  /\ config = DeepConfig
  /\ pc = "start"
  /\ SessionInit
  /\ PacingInit
  /\ WaitIdle
  /\ app = "none"
  /\ dom \in FetchedPages
  /\ returned = << >>

\* status = self.wait_for_ads_or_captcha(timeout=40) (line 73)
WaitForAdsOrCaptcha ==
  /\ returned = << >>
  /\ returned' = << wait_for_ads_or_captcha(dom) >>
  /\ UNCHANGED << run_vars, app, dom >>

ClassifyNext == WaitForAdsOrCaptcha

SpecClassify == ClassifyInit /\ [][ClassifyNext]_vars

(***************************************************************************)
(* The page loop of one keyword (scrape_target lines 223-248) studied      *)
(* alone, with the kinds of the pages fetched so far kept in returned.     *)
(* The pages either load, with or without ad elements, or time out, so     *)
(* that no error entry and no CAPTCHA comes in the way of the pagination.  *)
(***************************************************************************)
\* one keyword that may paginate well beyond max_empty_pages
LongConfig ==
  [targets |-> << [name |-> "t1", category |-> "c1", keywords |-> <<"k1">>] >>,
   max_pages |-> max_empty_pages + 3]

\* pages without exception, CAPTCHA or rate limit
QuietBehaviours ==
  { b \in PageBehaviours :
      /\ b.raise_at = "none"
      /\ ~b.captcha /\ ~b.resolved /\ ~b.rate_limited
      /\ b.jitter = JITTER_LOW }

\* what scrape_target makes of the tuple _scrape_page returned (lines
\* 237-248)
PageKind(r) ==
  IF r.success THEN (IF r.ads # << >> THEN "records" ELSE "empty") ELSE "failed"

PagesInit ==
  /\ config = LongConfig
  /\ pc = "page_loop"
  /\ driver = "chrome"
  /\ ti = 1
  /\ ki = 1
  /\ page = 1
  /\ consecutive_empty_pages = 0
  /\ keyword_ads = << >>
  /\ target_ads = << >>
  /\ all_ads = << >>
  /\ successful_pages = 0
  /\ failed_pages = 0
  /\ total_ads_found = 0
  /\ errors = << >>
  /\ captcha_count = 0
  /\ consecutive_errors = 0
  /\ last = NoLast
  /\ PacingInit
  /\ WaitIdle
  /\ app = "none"
  /\ dom = "none"
  /\ returned = << >>

\* one iteration of the page loop, as ScrapePage, on a quiet page
ScrapeQuietPage ==
  /\ pc = "page_loop"
  /\ ~ErrorBudgetExceeded(errors)
  /\ should_continue_scraping(captcha_count)
  /\ \E b \in QuietBehaviours :
       LET r == scrape_page(CurrentM, Targets[ti].category,
                            Targets[ti].keywords[ki], page, b)
           a == AfterPage(r, keyword_ads, consecutive_empty_pages)
       IN  /\ successful_pages' = r.m.successful_pages
           /\ failed_pages' = r.m.failed_pages
           /\ errors' = r.m.errors
           /\ captcha_count' = r.m.captcha_count
           /\ consecutive_errors' = r.m.consecutive_errors
           /\ keyword_ads' = a.ads
           /\ consecutive_empty_pages' = a.empty
           /\ page' = page + 1
           /\ pc' = IF a.brk \/ page >= max_pages THEN "keyword_end" ELSE "page_loop"
           /\ last' = [StepLog("ScrapePage") EXCEPT
                         !.page = page, !.outcome = r.outcome,
                         !.success = r.success, !.n_ads = Len(r.ads),
                         !.calls = a.calls]
           /\ returned' = Append(returned, PageKind(r))
  /\ UNCHANGED << pacing_vars, wait_vars, app, dom, config, driver, ti, ki,
                  target_ads, all_ads, total_ads_found >>

PagesNext == ScrapeQuietPage

SpecPages == PagesInit /\ [][PagesNext]_vars

\* every call of the page driver and every sleep returns, so the thread
\* that runs scrape_all_targets keeps taking its next step
SpecFair == Spec /\ WF_vars(Next)

\* the run is inside the loops of scrape_target
InPageLoops == pc \in {"page_loop", "keyword_end", "target_end"}

\* the session and the result are as the constructor left them
Untouched ==
  /\ successful_pages = 0
  /\ failed_pages = 0
  /\ total_ads_found = 0
  /\ captcha_count = 0
  /\ errors = << >>
  /\ all_ads = << >>

\* C21: only a configuration fault or a browser start failure ends the run
\* with an exception. A configuration load failure raises ConfigurationError
\* from the constructor, before the browser start and hence before any
\* fetch; a browser start failure makes scrape_all_targets raise with
\* nothing fetched; and no step inside the page, keyword or target loops (a
\* driver failure on a page, a CAPTCHA timeout, a rate limit, a breached
\* budget) ever makes it raise. The only other raise is that of a malformed
\* target entry of the configuration.
C21_OnlyStartupFaultsFatal ==
  [][ /\ (pc' = "config_error") => (pc = "new" /\ last'.action = "LoadConfigFail")
      /\ (pc' = "start") => pc = "new"
      /\ (pc \in {"new", "start"}) => (Untouched /\ ~Fetched)
      /\ FetchStep => pc \notin {"new", "start"}
      /\ (pc = "start" /\ pc' = "raised") =>
           (last'.action = "BrowserStartFail" /\ Untouched')
      /\ InPageLoops => pc' \notin {"raised", "config_error"}
      /\ (pc' = "raised") =>
           (pc = "start" \/ (pc = "target_start" /\ ~WellFormed(Targets[ti]))) ]_vars

\* the browser failed to start and scrape_all_targets raised
C21_Witness == pc = "raised" /\ last.action = "BrowserStartFail" /\ Untouched

\* the first target of the list a record's category belongs to, and the place
\* of the record's keyword in that target's keyword list
TargetOf(ad) ==
  CHOOSE t \in 1..Len(Targets) :
    /\ WellFormed(Targets[t]) /\ Targets[t].category = ad.category
    /\ \A u \in 1..(t - 1) :
         ~(WellFormed(Targets[u]) /\ Targets[u].category = ad.category)

KeywordOf(ad) ==
  LET kws == Targets[TargetOf(ad)].keywords
  IN  CHOOSE k \in 1..Len(kws) :
        kws[k] = ad.keyword /\ \A j \in 1..(k - 1) : kws[j] # ad.keyword

\* record a comes no later than record b in the order of (target, keyword, page)
NoLater(a, b) ==
  \/ TargetOf(a) < TargetOf(b)
  \/ /\ TargetOf(a) = TargetOf(b)
     /\ \/ KeywordOf(a) < KeywordOf(b)
        \/ KeywordOf(a) = KeywordOf(b) /\ a.page_number <= b.page_number

InFetchOrder(ads) ==
  \A i, j \in 1..Len(ads) : (i < j) => NoLater(ads[i], ads[j])

\* C22: pages are fetched one at a time in the order of (target index,
\* keyword index, page number): the target index never decreases, within a
\* target the keyword index never decreases, a fetch that follows a fetch is
\* the next page of the same keyword, a fetch that follows anything else is
\* page 1 of its keyword, every fetch appends its records, stamped with its
\* own position, to what the keyword has gathered; and the gathered and the
\* returned records are in that same order.
C22_FetchOrder ==
  /\ [][ /\ ti' >= ti
         /\ (ti' = ti /\ pc # "target_start") => ki' >= ki
         /\ FetchStep =>
              /\ last'.target = ti /\ last'.keyword = ki /\ last'.page = page
              /\ ti' = ti /\ ki' = ki /\ page' = page + 1
              /\ Fetched =>
                   (last.target = ti /\ last.keyword = ki /\ last.page + 1 = page)
              /\ ~Fetched => page = 1
              /\ IsPrefix(keyword_ads, keyword_ads')
              /\ \A i \in (Len(keyword_ads) + 1)..Len(keyword_ads') :
                   keyword_ads'[i] =
                     Ad(Targets[ti].category, Targets[ti].keywords[ki], page) ]_vars
  /\ [](InFetchOrder(keyword_ads) /\ InFetchOrder(target_ads) /\ InFetchOrder(all_ads))

\* a run has returned records of two keywords
C22_Witness ==
  /\ pc = "done"
  /\ \E i, j \in 1..Len(all_ads) : i < j /\ all_ads[i].keyword # all_ads[j].keyword

\* C25: total_ads_found changes only in the step that completes a target,
\* where it grows by the number of records scrape_target returned, the same
\* records that are appended to the run's result; so when
\* scrape_all_targets has returned, total_ads_found is the length of the
\* returned sequence, also when a target failed with an exception.
C25_TotalIsReturnedLength ==
  /\ [][ /\ (total_ads_found' # total_ads_found) => TargetCompleted
         /\ TargetCompleted =>
              /\ total_ads_found' = total_ads_found + Len(target_ads)
              /\ all_ads' = all_ads \o target_ads
         /\ (all_ads' # all_ads) => TargetCompleted ]_vars
  /\ []((pc = "done") => (total_ads_found = Len(all_ads)))

\* the run returned records although its first target failed with an exception
C25_Witness ==
  /\ pc = "done"
  /\ ~WellFormed(Targets[1])
  /\ total_ads_found >= 1
  /\ total_ads_found = Len(all_ads)

\* C24 (as claimed): the run has at most one browser session; every page is
\* fetched while the manager holds its driver, and once scrape_all_targets
\* has returned or raised the manager holds no driver.
C24_OneSessionReleased ==
  /\ InPageLoops => driver = "chrome"
  /\ (pc \in {"done", "raised"}) => driver = "None"

\* C26: in every reachable state success_rate is successful_pages over
\* (successful_pages + failed_pages), times 100, when that sum is positive,
\* and 0 when it is 0; so it lies between 0 and 100.
C26_SuccessRate ==
  LET rate == success_rate(successful_pages, failed_pages)
      total == successful_pages + failed_pages
  IN  /\ rate.den > 0
      /\ (total > 0) => (rate.num * total = successful_pages * 100 * rate.den)
      /\ (total = 0) => rate.num = 0
      /\ 0 <= rate.num
      /\ rate.num <= 100 * rate.den

\* a session with more successful than failed pages, and some of each
C26_Witness == failed_pages >= 1 /\ successful_pages > failed_pages

\* the calls that examine or read the page driver.get has loaded
PageWork ==
  {"detect_captcha", "WebDriverWait", "detect_rate_limiting",
   "wait_for_page_load", "find_elements"}

PageWorkIn(calls) == {i \in 1..Len(calls) : calls[i].op \in PageWork}

\* C30: every fetch starts with driver.get. When the navigation succeeded,
\* wait_between_requests is the very next call, it is made once, and all the
\* work on the page (CAPTCHA and rate-limit detection, load wait, element
\* lookup) comes after it, detect_captcha directly; when driver.get raised,
\* the iteration makes neither that call nor any work on the page and ends
\* in the exception handler.
C30_PacedRightAfterNavigation ==
  [][ FetchStep =>
        LET calls == last'.calls
            waits == CallsOf(calls, "wait_between_requests")
        IN  /\ Len(calls) >= 1
            /\ calls[1].op = "get"
            /\ CallsOf(calls, "get") = {1}
            /\ waits \subseteq {2}
            /\ (waits = {2}) => (Len(calls) >= 3 /\ calls[3].op = "detect_captcha")
            /\ (waits = {}) =>
                 /\ PageWorkIn(calls) = {}
                 /\ last'.outcome \in {"webdriver_exception", "exception"}
            /\ (last'.outcome \notin {"webdriver_exception", "exception"}) =>
                 waits = {2} ]_vars

\* a page was extracted after the one pacing wait that followed driver.get
C30_Witness ==
  /\ Fetched
  /\ last.outcome = "extracted"
  /\ CallsOf(last.calls, "wait_between_requests") = {2}

VisibleAt(d) == {i \in 1..Len(CAPTCHA_SELECTORS) : d[i] = "visible"}

\* no lookup before position n failed other than by finding nothing
NoErrorBefore(d, n) == \A i \in 1..(n - 1) : d[i] # "error"

\* C27: detect_captcha goes through the fixed selector list in order and the
\* first match wins: it returns (True, s) for the first selector s of the
\* list whose element is present and visible, whatever absent or hidden
\* elements come before it, and (False, None) when no selector has a
\* present and visible element; a hidden element neither counts as a match
\* nor ends the scan. (Lookups are taken not to fail other than by finding
\* nothing, before the match or, without a match, anywhere.)
C27_FirstVisibleMarkerWins ==
  (returned # << >>) =>
    LET hits == VisibleAt(dom)
    IN  /\ (hits = {} /\ NoErrorBefore(dom, Len(CAPTCHA_SELECTORS) + 1)) =>
             returned[1] = NotDetected
        /\ \A i \in hits :
             ((\A j \in hits : i <= j) /\ NoErrorBefore(dom, i)) =>
               returned[1] = Detected(CAPTCHA_SELECTORS[i])

\* a visible marker was reported although a hidden element of an earlier
\* selector and a visible element of a later one were on the page
C27_Witness ==
  /\ returned # << >>
  /\ \E h, i, k \in 1..Len(CAPTCHA_SELECTORS) :
       /\ h < i /\ i < k
       /\ dom[h] = "hidden" /\ dom[i] = "visible" /\ dom[k] = "visible"
       /\ \A j \in 1..(i - 1) : Passed(dom[j])
       /\ returned[1] = Detected(CAPTCHA_SELECTORS[i])

\* the record built has the sentinel for every field that was missing
SentinelsIn(ad, e) ==
  /\ ad.title # ""
  /\ (e.title \in {"missing", "blank"}) => ad.title = TITLE_UNAVAILABLE
  /\ (e.price = "missing") => ad.price = PRICE_UNAVAILABLE

\* C28 (as claimed): every ad element yields exactly one record, with the
\* sentinel for a missing title or price and with a non-empty title.
C28_OneRecordPerElement ==
  (returned # << >>) =>
    /\ Len(returned[1]) = 1
    /\ SentinelsIn(returned[1][1], dom)

\* C28 (amended): an ad element none of whose lookups fails other than by
\* finding nothing yields exactly one record, with the sentinel for a
\* missing title or price and with a non-empty title; an element with a
\* lookup that fails otherwise yields no record.
C28_OneRecordUnlessFault ==
  (returned # << >>) =>
    IF ExtractionFaults(dom)
      THEN returned[1] = << >>
      ELSE /\ Len(returned[1]) = 1
           /\ SentinelsIn(returned[1][1], dom)

\* an element without title and price has yielded its record
C28_Witness ==
  /\ returned # << >>
  /\ dom.title = "missing"
  /\ dom.price = "missing"
  /\ Len(returned[1]) = 1
  /\ returned[1][1].title = TITLE_UNAVAILABLE

\* scrape_all_targets has not been called and nothing it does has happened
NeverScraped ==
  /\ ~app.invoked
  /\ app.pc \notin {"enter", "post_start", "scraping", "quitting", "export"}
  /\ driver = "None"
  /\ app.quits = 0
  /\ app.fetched = 0
  /\ ~app.exported

\* C23 (as claimed): when the process has stopped on a signal the manager
\* holds no driver, and the browser of the session is quit at most once,
\* wherever in the run the signal falls.
C23_InterruptReleasesOnce ==
  /\ app.quits <= 1
  /\ (app.interrupted /\ app.pc = "exited") => driver = "None"

\* C29 (as claimed): in a dry run, or when the answer does not start with
\* the character 'y', scrape_all_targets is never called: no browser is
\* started, no page is fetched and nothing is exported.
C29_NoScrapeUnlessLowercaseY ==
  (app.dry_run \/ ~startswith(app.answer, "y")) => NeverScraped

\* C29 (amended): in a dry run, or when the answer does not start with 'y'
\* or 'Y', scrape_all_targets is never called: no browser is started, no
\* page is fetched and nothing is exported.
C29_NoScrapeUnlessConfirmed ==
  (app.dry_run \/ ~startswith(lower(app.answer), "y")) => NeverScraped

\* the user answered with something else than a yes and run() has returned
C29_Witness ==
  /\ app.pc = "returned"
  /\ ~app.dry_run
  /\ app.answer = << "o", "u", "i" >>
  /\ NeverScraped

\* the record names a target and a keyword of the configuration and a page
\* the page loop can reach
FromConfiguredPage(ad) ==
  /\ ad.page_number \in 1..max_pages
  /\ \E t \in 1..Len(Targets) :
       /\ WellFormed(Targets[t])
       /\ Targets[t].category = ad.category
       /\ \E k \in 1..Len(Targets[t].keywords) : Targets[t].keywords[k] = ad.keyword

AllFromConfiguredPages(ads) == \A i \in 1..Len(ads) : FromConfiguredPage(ads[i])

\* C31: records enter the result only in a fetch that ends as a success: a
\* fetch that ends as failed leaves the gathered records as they are, a
\* successful one appends exactly the records it extracted, each with the
\* category, keyword and page number of that fetch; so every gathered or
\* returned record carries a configured category and keyword and a page
\* number in 1..max_pages.
C31_RecordsFromSuccessfulPages ==
  /\ [][ FetchStep =>
           /\ ~last'.success => keyword_ads' = keyword_ads
           /\ (keyword_ads' # keyword_ads) =>
                (last'.success /\ last'.outcome = "extracted")
           /\ Len(keyword_ads') = Len(keyword_ads) + last'.n_ads
           /\ IsPrefix(keyword_ads, keyword_ads')
           /\ \A i \in (Len(keyword_ads) + 1)..Len(keyword_ads') :
                keyword_ads'[i] =
                  Ad(Targets[ti].category, Targets[ti].keywords[ki], page) ]_vars
  /\ [](/\ AllFromConfiguredPages(keyword_ads)
        /\ AllFromConfiguredPages(target_ads)
        /\ AllFromConfiguredPages(all_ads))

\* the run has returned a record of the last page a keyword may reach
C31_Witness ==
  /\ pc = "done"
  /\ \E i \in 1..Len(all_ads) : all_ads[i].page_number = max_pages /\ max_pages > 1

\* no driver call of the classification failed with an exception of its own
LookupsWork(d) ==
  /\ d.ads.state # "error"
  /\ AdsWithinTimeout(d) \/ d.iframe # "error"

\* C32: a fetched page gets exactly one of the three outcomes: ads_loaded
\* when the ad container appears within the timeout, otherwise
\* captcha_detected when the CAPTCHA iframe is present and timeout_no_ads
\* when it is not. (The driver's lookups are taken not to fail with
\* exceptions of their own.)
C32_OneOfThreeOutcomes ==
  (returned # << >> /\ LookupsWork(dom)) =>
    /\ returned[1] \in {"ads_loaded", "captcha_detected", "timeout_no_ads"}
    /\ (returned[1] = "ads_loaded") <=> AdsWithinTimeout(dom)
    /\ (returned[1] = "captcha_detected") <=>
         (~AdsWithinTimeout(dom) /\ dom.iframe = "present")
    /\ (returned[1] = "timeout_no_ads") <=>
         (~AdsWithinTimeout(dom) /\ dom.iframe = "absent")

\* the ads appeared within the timeout on a page that shows the CAPTCHA
\* iframe as well
C32_Witness ==
  /\ returned = << "ads_loaded" >>
  /\ dom.iframe = "present"
  /\ dom.ads.at >= 1

\* C33: a breach of the error budget or of the CAPTCHA ceiling is permanent:
\* from a breached state every step leads to a breached state, errors keeps
\* all its entries and captcha_count does not decrease, no step navigates to
\* a page, and the page loop of every keyword entered after the breach is
\* left at page 1.
C33_BreachIsPermanent ==
  [][ Breached =>
        /\ Breached'
        /\ Len(errors') >= Len(errors)
        /\ captcha_count' >= captcha_count
        /\ ~FetchStep
        /\ (pc = "page_loop") => BreakStep
        /\ (BreakStep /\ ~Fetched) => page = 1 ]_vars

\* a keyword of a later target was left at page 1 because of the breach
C33_Witness ==
  /\ last.outcome = "budget_break"
  /\ last.page = 1
  /\ last.target = 2
  /\ Breached

\* C34: captcha_count never exceeds max_captcha_encounters + 1: a fetch, and
\* with it a call of handle_captcha_manually, is made only with the count at
\* most at the ceiling, a call adds one, and above the ceiling the count no
\* longer changes.
C34_CaptchaCountBounded ==
  /\ [](captcha_count <= max_captcha_encounters + 1)
  /\ [][ /\ FetchStep => captcha_count <= max_captcha_encounters
         /\ captcha_count' <= captcha_count + 1
         /\ (captcha_count > max_captcha_encounters) =>
              /\ captcha_count' = captcha_count
              /\ CallsOf(last'.calls, "handle_captcha_manually") = {} ]_vars

\* the count stands one above the ceiling after the encounter that went
\* past it
C34_Witness ==
  /\ Fetched
  /\ CaptchaDetectedIn(last.calls)
  /\ captcha_count = max_captcha_encounters + 1

\* the empty pages among the fetched ones since the last page with records
EmptySinceRecords(kinds) ==
  LET with_records == {i \in 1..Len(kinds) : kinds[i] = "records"}
      from == IF with_records = {}
                THEN 0
                ELSE CHOOSE i \in with_records : \A j \in with_records : i >= j
  IN  Cardinality({i \in (from + 1)..Len(kinds) : kinds[i] = "empty"})

\* C35: a failed page leaves consecutive_empty_pages as it is: after any
\* sequence of pages of a keyword the counter is the number of empty
\* successful pages since the last page with records, failed pages in
\* between not counting either way, and the page loop is left right after
\* the page that makes this number max_empty_pages (or after page
\* max_pages); so empty, failed, empty, failed, empty ends the pagination.
C35_FailedPageLeavesEmptyCount ==
  /\ consecutive_empty_pages = EmptySinceRecords(returned)
  /\ page = Len(returned) + 1
  /\ (pc = "page_loop") =>
       (consecutive_empty_pages < max_empty_pages /\ Len(returned) < max_pages)
  /\ (pc = "keyword_end") =>
       \/ Len(returned) = max_pages
       \/ /\ returned[Len(returned)] = "empty"
          /\ consecutive_empty_pages = max_empty_pages

\* the sequence empty, failed, empty, failed, empty has ended the pagination
\* before max_pages
C35_Witness ==
  /\ returned = << "empty", "failed", "empty", "failed", "empty" >>
  /\ pc = "keyword_end"
  /\ Len(returned) < max_pages
  /\ consecutive_empty_pages = max_empty_pages

\* the pages counted as successful or as failed
PagesCounted == successful_pages + failed_pages

\* C36: a fetch changes successful_pages + failed_pages by nothing or by
\* one, never both counters and never one of them twice, and no other step
\* changes either counter; so the sum never exceeds the number of pages
\* navigated to, which during the first keyword of a run is page - 1.
C36_AtMostOneCountPerFetch ==
  /\ [][ /\ FetchStep =>
              /\ PagesCounted' \in {PagesCounted, PagesCounted + 1}
              /\ successful_pages' >= successful_pages
              /\ failed_pages' >= failed_pages
         /\ ~FetchStep => UNCHANGED << successful_pages, failed_pages >> ]_vars
  /\ []((ti = 1 /\ ki = 1 /\ pc \in {"page_loop", "keyword_end"}) =>
          PagesCounted <= page - 1)

\* two pages were navigated to and both are counted, one as successful and
\* one as failed
C36_Witness ==
  /\ ti = 1 /\ ki = 1 /\ pc = "page_loop"
  /\ page = 3
  /\ successful_pages = 1
  /\ failed_pages = 1

\* C37: errors never has more entries than failed_pages counts: errors
\* grows only in a fetch, by one entry, and that fetch adds exactly one to
\* failed_pages; failed_pages can also grow in a fetch that adds no entry.
C37_ErrorsAtMostFailedPages ==
  /\ [](Len(errors) <= failed_pages)
  /\ [][ /\ Len(errors') \in {Len(errors), Len(errors) + 1}
         /\ (Len(errors') = Len(errors) + 1) =>
              (FetchStep /\ failed_pages' = failed_pages + 1) ]_vars

\* a page failed on a load timeout after another had failed with an error
\* entry
C37_Witness ==
  /\ Fetched
  /\ last.outcome = "load_timeout"
  /\ Len(errors) = 1
  /\ failed_pages = 2

\* the constructor or scrape_all_targets has returned or raised
Ended == pc \in {"done", "raised", "config_error"}

\* every sleep and wait logged in the last step has a finite length, at most
\* the longest one the run can take
LongestWait == RATE_LIMIT_BASE + JITTER_HIGH

WaitsBounded(calls) ==
  \A i \in 1..Len(calls) : calls[i].dur \in 0..LongestWait

\* C38: no page is fetched twice: a fetch is of a page in 1..max_pages and
\* moves on to the next page number, and the page number otherwise changes
\* only by starting at 1 for another keyword, so a keyword has at most
\* max_pages fetches; every wait taken is bounded; and, every driver call
\* returning, scrape_all_targets eventually returns or raises.
C38_TerminatesWithoutRetry ==
  /\ [][ /\ FetchStep => (page \in 1..max_pages /\ page' = page + 1)
         /\ (page' # page /\ ~FetchStep) =>
              (page' = 1 /\ pc \in {"keyword_end", "target_start"})
         /\ (pc' = "page_loop" /\ pc # "page_loop") => page' = 1
         /\ WaitsBounded(last'.calls) ]_vars
  /\ <>Ended

\* a run that fetched a keyword up to its last page has returned
C38_Witness ==
  /\ pc = "done"
  /\ max_pages > 1
  /\ page = max_pages + 1

\* C39 (as claimed): when BrowserManager.start() has raised, whichever of
\* its steps failed, the manager holds no driver and no browser is left
\* open.
C39_FailedStartHoldsNoDriver ==
  (last.action = "BrowserStartFail") => driver = "None"

====
